---- MODULE Spec2Model ----
(***************************************************************************)
(* ServiceTracker: the command execution engine (command_probe.run_probe,  *)
(* aruba_os_switch.run_collector, aruba_cx_switch.run_collector), its      *)
(* blocked-keyword gate and the command-set validator; the normalization   *)
(* collectors (aruba_ap, aruba_controller) and the AP/client derivation    *)
(* (derive_ap_client_map).                                                 *)
(*                                                                         *)
(* Text is modelled character by character: a Python str (or bytes) is a   *)
(* sequence of one-character strings, so that substring tests, strip(),    *)
(* lower(), template rendering, the VLAN-id regular expression and the     *)
(* artifact file names are computed the way the code computes them.        *)
(***************************************************************************)
EXTENDS Integers, Sequences, FiniteSets, TLC

VARIABLES
    engine,        \* which program runs: "probe", "os", "cx", "validate",
                   \* "aruba_ap", "aruba_controller" or "derive"
    command_set,   \* command_set["commands"]: sequence of [category, commands]
    blocked,       \* command_set["safety"]["blocked_keywords"]
    paging_cmds,   \* command_set.transport.ssh.paging_disable
    pc,            \* position of the run in the code
    phase,         \* the loop a command belongs to: "phase1", "phase2", "default"
    pi,            \* index into paging_cmds (disable_paging loop)
    ci,            \* index of the category being processed
    ei,            \* index of the entry of the category being processed
    vi,            \* index into vlan_ids (inner loop of the expansion)
    cmd_index,     \* cmd_index / idx of the code
    vlan_ids,      \* vlan_ids of the code
    cmd,           \* cmd of the code: the text about to be gated and sent
    result,        \* result of the last execute_command
    ops,           \* history: gate checks and session operations, in order
    files,         \* the artifact directory: file name -> bytes
    manifest,      \* the in-memory manifest
    manifest_file, \* the manifest file on disk: <<>> or <<manifest>>
    abort,         \* why the run ended with an exception ("" if it did not)
    artifacts,     \* artifacts of the normalization collectors: name -> text
    ap_manifest,   \* derivation: the AP collector_manifest.json, <<>> if missing
    ctrl_manifest, \* derivation: the controller collector_manifest.json
    out_file,      \* derived/ap_client_correlation.json: <<>> or <<result>>
    probe_run      \* the finished run_probe the collector's run is set
                   \* against: <<>>, or <<r>> with r what that run left

vars == <<engine, command_set, blocked, paging_cmds, pc, phase, pi, ci, ei, vi,
          cmd_index, vlan_ids, cmd, result, ops, files, manifest,
          manifest_file, abort, artifacts, ap_manifest, ctrl_manifest,
          out_file, probe_run>>

-----------------------------------------------------------------------------
(* Bounds of the model *)

\* number of ids in a device's VLAN listing
MaxIds == 2
\* longest string the validator specification draws
MaxStrLen == 2
\* longest blocked-keyword list the validator specification draws
MaxBlocked == 2
\* number of data rows in a client table
MaxRows == 2
\* number of client records in a controller manifest
MaxClients == 2
\* number of lines in a `show vlan` output given to extract_vlan_ids alone
MaxLines == 3

-----------------------------------------------------------------------------
(* Characters and strings *)

UpperChars == <<"A","B","C","D","E","F","G","H","I","J","K","L","M",
                "N","O","P","Q","R","S","T","U","V","W","X","Y","Z">>
LowerChars == <<"a","b","c","d","e","f","g","h","i","j","k","l","m",
                "n","o","p","q","r","s","t","u","v","w","x","y","z">>
DigitChars == <<"0","1","2","3","4","5","6","7","8","9">>

\* str.lower() on one character
LowerChar(c) ==
    IF \E i \in DOMAIN UpperChars : UpperChars[i] = c
    THEN LowerChars[CHOOSE i \in DOMAIN UpperChars : UpperChars[i] = c]
    ELSE c

\* str.lower()
Lower(s) == [i \in 1..Len(s) |-> LowerChar(s[i])]

\* Python's `needle in hay` on strings
Contains(hay, needle) ==
    \E i \in 0..(Len(hay) - Len(needle)) :
        SubSeq(hay, i + 1, i + Len(needle)) = needle

\* the characters str.strip() and the regex class \s treat as whitespace
IsSpace(c) == c \in {" ", "\n", "\t", "\r"}

\* the regex class \d
IsDigit(c) == \E i \in DOMAIN DigitChars : DigitChars[i] = c

RECURSIVE LStrip(_)
LStrip(s) == IF s # <<>> /\ IsSpace(Head(s)) THEN LStrip(Tail(s)) ELSE s

RECURSIVE RStrip(_)
RStrip(s) ==
    IF s # <<>> /\ IsSpace(s[Len(s)])
    THEN RStrip(SubSeq(s, 1, Len(s) - 1))
    ELSE s

\* str.strip()
Strip(s) == RStrip(LStrip(s))

\* str(n) for a natural number
RECURSIVE ToStr(_)
ToStr(n) ==
    IF n < 10 THEN <<DigitChars[n + 1]>>
    ELSE ToStr(n \div 10) \o <<DigitChars[(n % 10) + 1]>>

DigitVal(c) == (CHOOSE i \in DOMAIN DigitChars : DigitChars[i] = c) - 1

\* int(s) for a string of digits
RECURSIVE ToInt(_)
ToInt(s) ==
    IF s = <<>> THEN 0
    ELSE 10 * ToInt(SubSeq(s, 1, Len(s) - 1)) + DigitVal(s[Len(s)])

-----------------------------------------------------------------------------
(* Literals of the code *)

ShowVlan    == <<"s","h","o","w"," ","v","l","a","n">>
Placeholder == <<"{","{","v","l","a","n","_","i","d","}","}">>
VlanIdName  == <<"v","l","a","n","_","i","d">>
DetailMark  == <<"d","e","t","a","i","l">>
VlansCat    == <<"v","l","a","n","s">>
DotTxt      == <<".","t","x","t">>
VlanSummaryTxt == <<"v","l","a","n","_","s","u","m","m","a","r","y">> \o DotTxt
VlanPrefix  == <<"v","l","a","n","_">>
DetailSuffix == <<"_","d","e","t","a","i","l">>
Sha256Tag   == "sha256:"

-----------------------------------------------------------------------------
(* Helpers of the code *)

\* enforce_blocked_keywords: TRUE iff it raises ValueError
enforce_blocked_keywords(command, blocked_terms) ==
    \E i \in 1..Len(blocked_terms) : Contains(Lower(command), blocked_terms[i])

\* sha256_bytes: the tag and a digest; the digest is modelled as the bytes
\* themselves (a collision-free hash)
sha256_bytes(data) == <<Sha256Tag, data>>

\* index after the run of whitespace that starts at p
RECURSIVE SpaceEnd(_, _)
SpaceEnd(text, p) ==
    IF p <= Len(text) /\ IsSpace(text[p]) THEN SpaceEnd(text, p + 1) ELSE p

\* index after the run of digits that starts at p
RECURSIVE DigitEnd(_, _)
DigitEnd(text, p) ==
    IF p <= Len(text) /\ IsDigit(text[p]) THEN DigitEnd(text, p + 1) ELSE p

\* where ^ matches under re.MULTILINE
LineStart(text, p) == p = 1 \/ text[p - 1] = "\n"

\* the match of \s*(\d+)\s+ anchored at p
MatchAt(text, p) ==
    LET q == SpaceEnd(text, p)
        r == DigitEnd(text, q)
        e == SpaceEnd(text, r)
    IN  [ok |-> r > q /\ e > r, group1 |-> SubSeq(text, q, r - 1), end |-> e]

\* re.finditer(r"^\s*(\d+)\s+", text, re.MULTILINE) from position p on,
\* each match mapped to int(match.group(1))
RECURSIVE FindIds(_, _)
FindIds(text, p) ==
    IF p > Len(text) THEN <<>>
    ELSE IF LineStart(text, p) /\ MatchAt(text, p).ok
         THEN <<ToInt(MatchAt(text, p).group1)>>
                  \o FindIds(text, MatchAt(text, p).end)
         ELSE FindIds(text, p + 1)

extract_vlan_ids(output_bytes) == FindIds(output_bytes, 1)

\* length of a Jinja expression {{ vlan_id }} (any blanks inside the braces)
\* at the head of t, or 0 if there is none
ExprLenAtHead(t) ==
    IF Len(t) >= 2 /\ t[1] = "{" /\ t[2] = "{"
    THEN LET a == SpaceEnd(t, 3)
             b == a + Len(VlanIdName)
             c == SpaceEnd(t, b)
         IN  IF /\ c + 1 <= Len(t)
                /\ SubSeq(t, a, b - 1) = VlanIdName
                /\ t[c] = "}" /\ t[c + 1] = "}"
             THEN c + 1
             ELSE 0
    ELSE 0

\* render_command(template_str, {"vlan_id": vid})
RECURSIVE render_command(_, _)
render_command(template_str, vid) ==
    IF template_str = <<>> THEN <<>>
    ELSE IF ExprLenAtHead(template_str) > 0
         THEN ToStr(vid) \o
              render_command(SubSeq(template_str,
                                    ExprLenAtHead(template_str) + 1,
                                    Len(template_str)), vid)
         ELSE <<Head(template_str)>> \o render_command(Tail(template_str), vid)

-----------------------------------------------------------------------------
(* The session: what the device may answer *)

ErrText    == <<"e","r","r">>
BlankText  == <<" ","\n">>
HeaderText == <<"V","L","A","N"," ","I","D","\n">>
PlainText  == <<"o","k","\n">>

\* one line of a VLAN listing: the id, indented, and a name
ListingLine(id) == <<" ">> \o ToStr(id) \o <<" ","N","\n">>

RECURSIVE Listing(_)
Listing(ids) ==
    IF ids = <<>> THEN HeaderText
    ELSE Listing(SubSeq(ids, 1, Len(ids) - 1)) \o ListingLine(ids[Len(ids)])

\* a listing of MaxIds distinct ids, highest first, and one that repeats id 1
DescendingIds == [i \in 1..MaxIds |-> MaxIds + 1 - i]
RepeatedIds   == [i \in 1..MaxIds |-> 1]

Returned(text) == [raised |-> FALSE, text |-> text]
Raised(text)   == [raised |-> TRUE, text |-> text]
NoReply        == Returned(<<>>)

\* send_command_timing either raises or returns the device's output; only
\* the summary command is answered with a VLAN listing
Responses(command) ==
    IF Strip(command) = ShowVlan
    THEN {Raised(ErrText), Returned(<<>>), Returned(BlankText),
          Returned(HeaderText), Returned(Listing(DescendingIds)),
          Returned(Listing(RepeatedIds))}
    ELSE {Raised(ErrText), Returned(BlankText), Returned(PlainText)}

-----------------------------------------------------------------------------
(* The command sets the runs are checked on *)

ShowRun   == <<"s","h","o","w"," ","r","u","n">>
ShowLldp  == <<"s","h","o","w"," ","l","l","d","p">>
ReloadCmd == <<"R","e","l","o","a","d">>
NoPage    == <<"n","o"," ","p","a","g","e">>
PlainTemplate  == ShowVlan \o <<" ">> \o Placeholder
DetailTemplate == ShowVlan \o <<" ">> \o Placeholder \o <<" ">> \o DetailMark
SysCat  == <<"s","y","s">>
VlanCat == <<"v","l","a","n">>

Category(name, commands) == [category |-> name, commands |-> commands]

\* summary, plain and detail templates, then a default category
ExpansionSet ==
    << Category(VlansCat, <<ShowVlan, PlainTemplate, DetailTemplate>>),
       Category(SysCat, <<ShowRun>>) >>

\* a default category named "vlan"; placeholder template declared first,
\* a non-summary command, and the summary command twice
RepeatedSummarySet ==
    << Category(VlanCat, <<ShowRun>>),
       Category(VlansCat, <<PlainTemplate, ShowLldp, ShowVlan, ShowVlan>>) >>

\* a default category holding a command the gate may reject
DefaultSet ==
    << Category(SysCat, <<ShowRun, ReloadCmd, ShowLldp>>),
       Category(VlansCat, <<ShowVlan>>) >>

\* the placeholder written the way Jinja is usually written, with blanks
\* inside the braces
SpacedTemplate ==
    ShowVlan \o <<" ","{","{"," ">> \o VlanIdName \o <<" ","}","}">>

\* a placeholder template in a category other than vlans, and a vlans
\* category whose only template has the placeholder written with blanks
StrayTemplateSet ==
    << Category(SysCat, <<PlainTemplate>>),
       Category(VlansCat, <<SpacedTemplate>>) >>

CommandSets == {ExpansionSet, RepeatedSummarySet, DefaultSet, StrayTemplateSet}

\* "vlan 1" occurs in a command only after the id is substituted
BlockedLists == { <<>>,
                  << <<"r","e","l","o","a","d">>, <<"v","l","a","n"," ","1">> >> }

PagingLists == { <<>>, <<NoPage>> }

Engines == {"probe", "os", "cx"}

-----------------------------------------------------------------------------
(* execute_command and the records the run builds *)

NoResult == [status |-> "none", output |-> <<>>, error |-> <<>>]

\* faulty variant of the classification: tests the output without strip()
Classify_nostrip(response) ==
    IF response.raised
    THEN [status |-> "failed", output |-> response.text,
          error |-> <<response.text>>]
    ELSE [status |-> IF response.text # <<>> THEN "success" ELSE "empty",
          output |-> response.text, error |-> <<>>]

\* execute_command after the flush: the try/except around the send and the
\* returned dict (error: <<>> is None, <<t>> is the text t; duration_ms,
\* a wall-clock reading, is left out)
Classify(response) ==
    IF response.raised
    THEN [status |-> "failed", output |-> response.text,
          error |-> <<response.text>>]
    ELSE [status |-> IF Strip(response.text) # <<>> THEN "success" ELSE "empty",
          output |-> response.text, error |-> <<>>]

\* an entry of the history: a gate check or a session operation, the text it
\* was given and, for a send, what the session answered
Op(kind, by, text, reply) == [op |-> kind, by |-> by, cmd |-> text, reply |-> reply]

CurCategory == command_set[ci].category
CurCommands == command_set[ci].commands

\* keys of the per-category summary: run_probe and the collectors differ
OkKey  == IF engine = "probe" THEN "supported" ELSE "success"
BadKey == IF engine = "probe" THEN "unsupported" ELSE "failed"

EmptyFiles == [p \in {} |-> <<>>]
EmptyResults == [c \in {} |-> <<>>]

\* manifest["results"].setdefault(category, {...: [], ...: []})
SetDefault(results, category) ==
    IF category \in DOMAIN results THEN results
    ELSE results @@ (category :> [k \in {OkKey, BadKey} |-> <<>>])

IndexedName(category, index) == category \o <<"_">> \o ToStr(index) \o DotTxt

\* faulty variant of the naming: default handling names the file after the
\* category alone
ArtifactName_unindexed(which, category, command, index, vid) ==
    CASE which = "phase1" ->
            IF Strip(command) = ShowVlan THEN VlanSummaryTxt
            ELSE IndexedName(category, index)
      [] which = "phase2" ->
            IF Contains(command, DetailMark)
            THEN VlanPrefix \o ToStr(vid) \o DetailSuffix \o DotTxt
            ELSE VlanPrefix \o ToStr(vid) \o DotTxt
      [] OTHER -> category \o DotTxt

\* the file name under artifacts_dir chosen in each of the three loops
ArtifactName(which, category, command, index, vid) ==
    CASE which = "phase1" ->
            IF Strip(command) = ShowVlan THEN VlanSummaryTxt
            ELSE IndexedName(category, index)
      [] which = "phase2" ->
            IF Contains(command, DetailMark)
            THEN VlanPrefix \o ToStr(vid) \o DetailSuffix \o DotTxt
            ELSE VlanPrefix \o ToStr(vid) \o DotTxt
      [] OTHER -> IndexedName(category, index)

\* the entry appended to manifest["command_attempts"] (run_probe only)
AttemptEntry(path) ==
    [command |-> cmd, category |-> CurCategory, attempt_index |-> cmd_index,
     status |-> result.status, error |-> result.error, artifact_path |-> path]

\* the entry appended to manifest["artifacts"]
ArtifactEntry(path) ==
    IF engine = "probe"
    THEN [path |-> path, command |-> cmd, category |-> CurCategory,
          checksum |-> sha256_bytes(result.output)]
    ELSE [path |-> path, command |-> cmd, category |-> CurCategory,
          checksum |-> sha256_bytes(result.output), status |-> result.status]

\* faulty variant of the summary: an empty output counts as a success
Partitioned_empty_ok(results) ==
    LET key == IF result.status \in {"success", "empty"} THEN OkKey ELSE BadKey
    IN  [results EXCEPT ![CurCategory][key] = Append(@, cmd)]

\* the append to the success or to the failure list of the category
Partitioned(results) ==
    LET key == IF result.status = "success" THEN OkKey ELSE BadKey
    IN  [results EXCEPT ![CurCategory][key] = Append(@, cmd)]

-----------------------------------------------------------------------------
(* The run: run_probe / run_collector from the connect on *)

config == <<engine, command_set, blocked, paging_cmds, probe_run>>
loopvars == <<phase, pi, ci, ei, vi, cmd_index, vlan_ids, cmd, result>>
disk == <<files, manifest_file>>
\* what only the normalization collectors and the derivation use
normalize == <<artifacts, ap_manifest, ctrl_manifest, out_file>>

Init ==
    /\ engine \in Engines
    /\ command_set \in CommandSets
    /\ blocked \in BlockedLists
    /\ paging_cmds \in PagingLists
    /\ pc = "connect"
    /\ phase = "default"
    /\ pi = 1 /\ ci = 1 /\ ei = 1 /\ vi = 1
    /\ cmd_index = 1
    /\ vlan_ids = <<>>
    /\ cmd = <<>>
    /\ result = NoResult
    /\ ops = <<>>
    /\ files = EmptyFiles
    /\ manifest = [command_attempts |-> <<>>, artifacts |-> <<>>,
                   results |-> EmptyResults]
    /\ manifest_file = <<>>
    /\ abort = ""
    /\ artifacts = EmptyFiles
    /\ ap_manifest = <<>>
    /\ ctrl_manifest = <<>>
    /\ out_file = <<>>
    /\ probe_run = <<>>

\* an exception leaves run_probe: nothing after the raising line runs
Raise(cause) ==
    /\ pc' = "aborted"
    /\ abort' = cause

\* conn = connect_aruba_os(...) returns a session
Connect ==
    /\ pc = "connect"
    /\ ops' = Append(ops, Op("connect", "run", <<>>, NoReply))
    /\ pc' = "paging"
    /\ UNCHANGED <<config, normalize, loopvars, disk, manifest, abort>>

\* ConnectHandler raises
ConnectFails ==
    /\ pc = "connect"
    /\ Raise("connect")
    /\ UNCHANGED <<config, normalize, loopvars, disk, manifest, ops>>

\* disable_paging: one iteration, the send returns
DisablePaging ==
    /\ pc = "paging"
    /\ pi <= Len(paging_cmds)
    /\ ops' = Append(ops, Op("send", "disable_paging", paging_cmds[pi], NoReply))
    /\ pi' = pi + 1
    /\ UNCHANGED <<config, normalize, pc, phase, ci, ei, vi, cmd_index, vlan_ids, cmd,
                   result, disk, manifest, abort>>

\* disable_paging: one iteration, the send raises
DisablePagingRaises ==
    /\ pc = "paging"
    /\ pi <= Len(paging_cmds)
    /\ ops' = Append(ops, Op("send", "disable_paging", paging_cmds[pi],
                              Raised(ErrText)))
    /\ Raise("paging")
    /\ UNCHANGED <<config, normalize, loopvars, disk, manifest>>

\* disable_paging returns; the category loop starts
PagingDone ==
    /\ pc = "paging"
    /\ pi > Len(paging_cmds)
    /\ pc' = "category"
    /\ ci' = 1
    /\ UNCHANGED <<config, normalize, phase, pi, ei, vi, cmd_index, vlan_ids, cmd,
                   result, ops, disk, manifest, abort>>

\* faulty variant of the head of the loop: only run_probe has the VLAN
\* handling, the collectors take every category through default handling
CategoryLoop_probe_only ==
    /\ pc = "category"
    /\ ci <= Len(command_set)
    /\ manifest' = [manifest EXCEPT
                      !.results = SetDefault(@, CurCategory)]
    /\ cmd_index' = 1
    /\ vlan_ids' = <<>>
    /\ ei' = 1
    /\ vi' = 1
    /\ phase' = IF engine = "probe" /\ CurCategory = VlansCat
                THEN "phase1" ELSE "default"
    /\ pc' = "loop"
    /\ UNCHANGED <<config, normalize, pi, ci, cmd, result, ops, disk, abort>>

\* faulty variant of the head of the loop: cmd_index runs on from the
\* category before
CategoryLoop_index_kept ==
    /\ pc = "category"
    /\ ci <= Len(command_set)
    /\ manifest' = [manifest EXCEPT
                      !.results = SetDefault(@, CurCategory)]
    /\ cmd_index' = cmd_index
    /\ vlan_ids' = <<>>
    /\ ei' = 1
    /\ vi' = 1
    /\ phase' = IF engine # "cx" /\ CurCategory = VlansCat
                THEN "phase1" ELSE "default"
    /\ pc' = "loop"
    /\ UNCHANGED <<config, normalize, pi, ci, cmd, result, ops, disk, abort>>

\* head of `for category, commands in ...items()`: setdefault, cmd_index = 1,
\* vlan_ids = [], and the choice between VLAN handling and default handling
\* (aruba_cx_switch has default handling only)
CategoryLoop ==
    /\ pc = "category"
    /\ ci <= Len(command_set)
    /\ manifest' = [manifest EXCEPT
                      !.results = SetDefault(@, CurCategory)]
    /\ cmd_index' = 1
    /\ vlan_ids' = <<>>
    /\ ei' = 1
    /\ vi' = 1
    /\ phase' = IF engine # "cx" /\ CurCategory = VlansCat
                THEN "phase1" ELSE "default"
    /\ pc' = "loop"
    /\ UNCHANGED <<config, normalize, pi, ci, cmd, result, ops, disk, abort>>

\* the category loop is exhausted
CategoriesDone ==
    /\ pc = "category"
    /\ ci > Len(command_set)
    /\ pc' = "disconnect"
    /\ UNCHANGED <<config, normalize, loopvars, ops, disk, manifest, abort>>

\* faulty variant of phase 1: a template with the placeholder is not skipped
\* but executed as it is
Phase1Skip_executes ==
    /\ pc = "loop" /\ phase = "phase1"
    /\ ei <= Len(CurCommands)
    /\ Contains(CurCommands[ei], Placeholder)
    /\ cmd' = CurCommands[ei]
    /\ pc' = "gate"
    /\ UNCHANGED <<config, normalize, phase, pi, ci, ei, vi, cmd_index, vlan_ids,
                   result, ops, disk, manifest, abort>>

\* phase 1: a template with the placeholder is skipped (continue)
Phase1Skip ==
    /\ pc = "loop" /\ phase = "phase1"
    /\ ei <= Len(CurCommands)
    /\ Contains(CurCommands[ei], Placeholder)
    /\ ei' = ei + 1
    /\ UNCHANGED <<config, normalize, pc, phase, pi, ci, vi, cmd_index, vlan_ids, cmd,
                   result, ops, disk, manifest, abort>>

\* phase 1: cmd = template, to be gated and executed
Phase1Select ==
    /\ pc = "loop" /\ phase = "phase1"
    /\ ei <= Len(CurCommands)
    /\ ~Contains(CurCommands[ei], Placeholder)
    /\ cmd' = CurCommands[ei]
    /\ pc' = "gate"
    /\ UNCHANGED <<config, normalize, phase, pi, ci, ei, vi, cmd_index, vlan_ids,
                   result, ops, disk, manifest, abort>>

\* phase 1 is over and ids were found: the expansion loop starts
Phase1ToPhase2 ==
    /\ pc = "loop" /\ phase = "phase1"
    /\ ei > Len(CurCommands)
    /\ vlan_ids # <<>>
    /\ phase' = "phase2"
    /\ ei' = 1
    /\ vi' = 1
    /\ UNCHANGED <<config, normalize, pc, pi, ci, cmd_index, vlan_ids, cmd, result,
                   ops, disk, manifest, abort>>

\* faulty variant of the end of phase 1: without ids the category falls through to
\* default handling
Phase1NoIds_fallthrough ==
    /\ pc = "loop" /\ phase = "phase1"
    /\ ei > Len(CurCommands)
    /\ vlan_ids = <<>>
    /\ phase' = "default"
    /\ ei' = 1
    /\ UNCHANGED <<config, normalize, pc, pi, ci, vi, cmd_index, vlan_ids, cmd,
                   result, ops, disk, manifest, abort>>

\* phase 1 is over and `if vlan_ids:` is false: continue with the next category
Phase1NoIds ==
    /\ pc = "loop" /\ phase = "phase1"
    /\ ei > Len(CurCommands)
    /\ vlan_ids = <<>>
    /\ ci' = ci + 1
    /\ pc' = "category"
    /\ UNCHANGED <<config, normalize, phase, pi, ei, vi, cmd_index, vlan_ids, cmd,
                   result, ops, disk, manifest, abort>>

\* phase 2: a template without the placeholder is skipped (continue)
Phase2Skip ==
    /\ pc = "loop" /\ phase = "phase2"
    /\ ei <= Len(CurCommands)
    /\ ~Contains(CurCommands[ei], Placeholder)
    /\ ei' = ei + 1
    /\ vi' = 1
    /\ UNCHANGED <<config, normalize, pc, phase, pi, ci, cmd_index, vlan_ids, cmd,
                   result, ops, disk, manifest, abort>>

\* faulty variant of the expansion: every command is rendered with the first id
Phase2Select_first_id ==
    /\ pc = "loop" /\ phase = "phase2"
    /\ ei <= Len(CurCommands)
    /\ Contains(CurCommands[ei], Placeholder)
    /\ vi <= Len(vlan_ids)
    /\ cmd' = render_command(CurCommands[ei], vlan_ids[1])
    /\ pc' = "gate"
    /\ UNCHANGED <<config, normalize, phase, pi, ci, ei, vi, cmd_index, vlan_ids,
                   result, ops, disk, manifest, abort>>

\* phase 2: cmd = render_command(template, {"vlan_id": vid})
Phase2Select ==
    /\ pc = "loop" /\ phase = "phase2"
    /\ ei <= Len(CurCommands)
    /\ Contains(CurCommands[ei], Placeholder)
    /\ vi <= Len(vlan_ids)
    /\ cmd' = render_command(CurCommands[ei], vlan_ids[vi])
    /\ pc' = "gate"
    /\ UNCHANGED <<config, normalize, phase, pi, ci, ei, vi, cmd_index, vlan_ids,
                   result, ops, disk, manifest, abort>>

\* phase 2: `for vid in vlan_ids` is exhausted for this template
Phase2NextTemplate ==
    /\ pc = "loop" /\ phase = "phase2"
    /\ ei <= Len(CurCommands)
    /\ Contains(CurCommands[ei], Placeholder)
    /\ vi > Len(vlan_ids)
    /\ ei' = ei + 1
    /\ vi' = 1
    /\ UNCHANGED <<config, normalize, pc, phase, pi, ci, cmd_index, vlan_ids, cmd,
                   result, ops, disk, manifest, abort>>

\* phase 2 is over: continue with the next category
Phase2End ==
    /\ pc = "loop" /\ phase = "phase2"
    /\ ei > Len(CurCommands)
    /\ ci' = ci + 1
    /\ pc' = "category"
    /\ UNCHANGED <<config, normalize, phase, pi, ei, vi, cmd_index, vlan_ids, cmd,
                   result, ops, disk, manifest, abort>>

\* default handling: cmd = entry["command"]
DefaultSelect ==
    /\ pc = "loop" /\ phase = "default"
    /\ ei <= Len(CurCommands)
    /\ cmd' = CurCommands[ei]
    /\ pc' = "gate"
    /\ UNCHANGED <<config, normalize, phase, pi, ci, ei, vi, cmd_index, vlan_ids,
                   result, ops, disk, manifest, abort>>

\* faulty variant of the end of default handling: the category is left
\* after its first command
DefaultEnd_early ==
    /\ pc = "loop" /\ phase = "default"
    /\ ei > 1
    /\ ci' = ci + 1
    /\ pc' = "category"
    /\ UNCHANGED <<config, normalize, phase, pi, ei, vi, cmd_index, vlan_ids, cmd,
                   result, ops, disk, manifest, abort>>

\* default handling is over for this category
DefaultEnd ==
    /\ pc = "loop" /\ phase = "default"
    /\ ei > Len(CurCommands)
    /\ ci' = ci + 1
    /\ pc' = "category"
    /\ UNCHANGED <<config, normalize, phase, pi, ei, vi, cmd_index, vlan_ids, cmd,
                   result, ops, disk, manifest, abort>>

\* faulty variant of the gate step: rendered commands are not checked
Gate_templates_only ==
    /\ pc = "gate"
    /\ IF phase = "phase2"
       THEN /\ pc' = "flush"
            /\ UNCHANGED <<ops, abort>>
       ELSE /\ ops' = Append(ops, Op("gate", "run", cmd, NoReply))
            /\ IF enforce_blocked_keywords(cmd, blocked)
               THEN Raise("gate")
               ELSE pc' = "flush" /\ UNCHANGED abort
    /\ UNCHANGED <<config, normalize, loopvars, disk, manifest>>

\* faulty variant of the gate step: a rejection is noted and the run goes on
Gate_warn_only ==
    /\ pc = "gate"
    /\ ops' = Append(ops, Op("gate", "run", cmd, NoReply))
    /\ abort' = IF enforce_blocked_keywords(cmd, blocked) THEN "gate" ELSE abort
    /\ pc' = "flush"
    /\ UNCHANGED <<config, normalize, loopvars, disk, manifest>>

\* enforce_blocked_keywords(cmd, blocked): returns, or raises ValueError
Gate ==
    /\ pc = "gate"
    /\ ops' = Append(ops, Op("gate", "run", cmd, NoReply))
    /\ IF enforce_blocked_keywords(cmd, blocked)
       THEN Raise("gate")
       ELSE pc' = "flush" /\ UNCHANGED abort
    /\ UNCHANGED <<config, normalize, loopvars, disk, manifest>>

\* faulty variant of the flush: the channel is not read before the send
Flush_skipped ==
    /\ pc = "flush"
    /\ pc' = "send"
    /\ UNCHANGED <<config, normalize, loopvars, ops, disk, manifest, abort>>

\* flush_channel: conn.read_channel() returns
Flush ==
    /\ pc = "flush"
    /\ ops' = Append(ops, Op("read_channel", "execute_command", <<>>, NoReply))
    /\ pc' = "send"
    /\ UNCHANGED <<config, normalize, loopvars, disk, manifest, abort>>

\* faulty variant of the raising flush: the session is closed on the way
\* out, as a try/finally around the loop would do
FlushRaises_closes ==
    /\ pc = "flush"
    /\ ops' = ops \o << Op("read_channel", "execute_command", <<>>,
                           Raised(ErrText)),
                        Op("disconnect", "run", <<>>, NoReply) >>
    /\ Raise("flush")
    /\ UNCHANGED <<config, normalize, loopvars, disk, manifest>>

\* flush_channel: conn.read_channel() raises, outside the try of
\* execute_command
FlushRaises ==
    /\ pc = "flush"
    /\ ops' = Append(ops, Op("read_channel", "execute_command", <<>>,
                              Raised(ErrText)))
    /\ Raise("flush")
    /\ UNCHANGED <<config, normalize, loopvars, disk, manifest>>

\* execute_command: the send inside the try, and the classification
Send ==
    /\ pc = "send"
    /\ \E response \in Responses(cmd) :
          /\ result' = Classify(response)
          /\ ops' = Append(ops, Op("send", "execute_command", cmd, response))
    /\ pc' = "record"
    /\ UNCHANGED <<config, normalize, phase, pi, ci, ei, vi, cmd_index, vlan_ids, cmd,
                   disk, manifest, abort>>

\* `if cmd.strip() == "show vlan" and not vlan_ids` in the success branch
SeededIds(ids, which, command, res) ==
    IF /\ which = "phase1"
       /\ res.status = "success"
       /\ Strip(command) = ShowVlan
       /\ ids = <<>>
    THEN extract_vlan_ids(res.output)
    ELSE ids

\* faulty variant of the bookkeeping: a failed execution ends the run
Record_failed_is_fatal ==
    /\ pc = "record"
    /\ LET path == ArtifactName(phase, CurCategory, cmd, cmd_index,
                                IF phase = "phase2" THEN vlan_ids[vi] ELSE 0)
       IN  /\ files' = (path :> result.output) @@ files
           /\ manifest' =
                [manifest EXCEPT
                   !.command_attempts =
                       IF engine = "probe" THEN Append(@, AttemptEntry(path))
                       ELSE @,
                   !.artifacts = Append(@, ArtifactEntry(path)),
                   !.results = Partitioned(@)]
    /\ vlan_ids' = SeededIds(vlan_ids, phase, cmd, result)
    /\ cmd_index' = cmd_index + 1
    /\ IF phase = "phase2"
       THEN vi' = vi + 1 /\ UNCHANGED ei
       ELSE ei' = ei + 1 /\ UNCHANGED vi
    /\ IF result.status = "failed"
       THEN Raise("command")
       ELSE pc' = "loop" /\ UNCHANGED abort
    /\ UNCHANGED <<config, normalize, phase, pi, ci, cmd, result, ops, manifest_file>>

\* faulty variant of the bookkeeping: after a failed execution the loop stays
\* at the same template, which is executed again
Record_retries_failed ==
    /\ pc = "record"
    /\ LET path == ArtifactName(phase, CurCategory, cmd, cmd_index,
                                IF phase = "phase2" THEN vlan_ids[vi] ELSE 0)
       IN  /\ files' = (path :> result.output) @@ files
           /\ manifest' =
                [manifest EXCEPT
                   !.command_attempts =
                       IF engine = "probe" THEN Append(@, AttemptEntry(path))
                       ELSE @,
                   !.artifacts = Append(@, ArtifactEntry(path)),
                   !.results = Partitioned(@)]
    /\ vlan_ids' = SeededIds(vlan_ids, phase, cmd, result)
    /\ cmd_index' = cmd_index + 1
    /\ IF result.status = "failed"
       THEN UNCHANGED <<ei, vi>>
       ELSE IF phase = "phase2"
            THEN vi' = vi + 1 /\ UNCHANGED ei
            ELSE ei' = ei + 1 /\ UNCHANGED vi
    /\ pc' = "loop"
    /\ UNCHANGED <<config, normalize, phase, pi, ci, cmd, result, ops, manifest_file,
                   abort>>

\* after execute_command: write the artifact, append to the manifest,
\* seed vlan_ids, cmd_index += 1, and go to the next iteration of the loop
Record ==
    /\ pc = "record"
    /\ LET path == ArtifactName(phase, CurCategory, cmd, cmd_index,
                                IF phase = "phase2" THEN vlan_ids[vi] ELSE 0)
       IN  /\ files' = (path :> result.output) @@ files
           /\ manifest' =
                [manifest EXCEPT
                   !.command_attempts =
                       IF engine = "probe" THEN Append(@, AttemptEntry(path))
                       ELSE @,
                   !.artifacts = Append(@, ArtifactEntry(path)),
                   !.results = Partitioned(@)]
    /\ vlan_ids' = SeededIds(vlan_ids, phase, cmd, result)
    /\ cmd_index' = cmd_index + 1
    /\ IF phase = "phase2"
       THEN vi' = vi + 1 /\ UNCHANGED ei
       ELSE ei' = ei + 1 /\ UNCHANGED vi
    /\ pc' = "loop"
    /\ UNCHANGED <<config, normalize, phase, pi, ci, cmd, result, ops, manifest_file,
                   abort>>

\* conn.disconnect() returns
Disconnect ==
    /\ pc = "disconnect"
    /\ ops' = Append(ops, Op("disconnect", "run", <<>>, NoReply))
    /\ pc' = "write_manifest"
    /\ UNCHANGED <<config, normalize, loopvars, disk, manifest, abort>>

\* faulty variant of the disconnect: the exception is swallowed and the run
\* goes on to write the manifest
DisconnectRaises_swallowed ==
    /\ pc = "disconnect"
    /\ ops' = Append(ops, Op("disconnect", "run", <<>>, Raised(ErrText)))
    /\ pc' = "write_manifest"
    /\ UNCHANGED <<config, normalize, loopvars, disk, manifest, abort>>

\* conn.disconnect() raises
DisconnectRaises ==
    /\ pc = "disconnect"
    /\ ops' = Append(ops, Op("disconnect", "run", <<>>, Raised(ErrText)))
    /\ Raise("disconnect")
    /\ UNCHANGED <<config, normalize, loopvars, disk, manifest>>

\* faulty variant of the manifest write: it happens before the disconnect
WriteManifest_before_disconnect ==
    /\ pc = "disconnect"
    /\ manifest_file' = <<manifest>>
    /\ pc' = "done"
    /\ UNCHANGED <<config, normalize, loopvars, ops, files, manifest, abort>>

\* manifest_path.write_text(json.dumps(manifest, indent=2))
WriteManifest ==
    /\ pc = "write_manifest"
    /\ manifest_file' = <<manifest>>
    /\ pc' = "done"
    /\ UNCHANGED <<config, normalize, loopvars, ops, files, manifest, abort>>

Next ==
    \/ Connect \/ ConnectFails
    \/ DisablePaging \/ DisablePagingRaises \/ PagingDone
    \/ CategoryLoop \/ CategoriesDone
    \/ Phase1Skip \/ Phase1Select \/ Phase1ToPhase2 \/ Phase1NoIds
    \/ Phase2Skip \/ Phase2Select \/ Phase2NextTemplate \/ Phase2End
    \/ DefaultSelect \/ DefaultEnd
    \/ Gate \/ Flush \/ FlushRaises \/ Send \/ Record
    \/ Disconnect \/ DisconnectRaises \/ WriteManifest

Spec == Init /\ [][Next]_vars

-----------------------------------------------------------------------------
(* validate_command_set.main: the gate applied to every command of a set *)

Alphabet == {"a", "A", "b"}

\* every string over the alphabet of at most MaxStrLen characters
Strings == UNION {[1..n -> Alphabet] : n \in 0..MaxStrLen}

\* every blocked-keyword list of at most MaxBlocked such strings
KeywordLists == UNION {[1..n -> Strings] : n \in 0..MaxBlocked}

ValidateInit ==
    /\ engine = "validate"
    /\ \E c1 \in Strings, c2 \in Strings :
          command_set = << Category(SysCat, <<c1>>), Category(VlansCat, <<c2>>) >>
    /\ blocked \in KeywordLists
    /\ paging_cmds = <<>>
    /\ pc = "validate"
    /\ phase = "default"
    /\ pi = 1 /\ ci = 1 /\ ei = 1 /\ vi = 1
    /\ cmd_index = 1
    /\ vlan_ids = <<>>
    /\ cmd = <<>>
    /\ result = NoResult
    /\ ops = <<>>
    /\ files = EmptyFiles
    /\ manifest = [command_attempts |-> <<>>, artifacts |-> <<>>,
                   results |-> EmptyResults]
    /\ manifest_file = <<>>
    /\ abort = ""
    /\ artifacts = EmptyFiles
    /\ ap_manifest = <<>>
    /\ ctrl_manifest = <<>>
    /\ out_file = <<>>
    /\ probe_run = <<>>

\* enforce_blocked_keywords(entry["command"], blocked) returns: next entry
ValidateEntry ==
    /\ pc = "validate"
    /\ ci <= Len(command_set)
    /\ ei <= Len(CurCommands)
    /\ ~enforce_blocked_keywords(CurCommands[ei], blocked)
    /\ ei' = ei + 1
    /\ UNCHANGED <<config, normalize, pc, phase, pi, ci, vi, cmd_index, vlan_ids, cmd,
                   result, ops, disk, manifest, abort>>

\* enforce_blocked_keywords raises ValueError: the validation ends
ValidateRejects ==
    /\ pc = "validate"
    /\ ci <= Len(command_set)
    /\ ei <= Len(CurCommands)
    /\ enforce_blocked_keywords(CurCommands[ei], blocked)
    /\ cmd' = CurCommands[ei]
    /\ Raise("gate")
    /\ UNCHANGED <<config, normalize, phase, pi, ci, ei, vi, cmd_index, vlan_ids,
                   result, ops, disk, manifest>>

\* the inner loop is exhausted: next category
ValidateNextCategory ==
    /\ pc = "validate"
    /\ ci <= Len(command_set)
    /\ ei > Len(CurCommands)
    /\ ci' = ci + 1
    /\ ei' = 1
    /\ UNCHANGED <<config, normalize, pc, phase, pi, vi, cmd_index, vlan_ids, cmd,
                   result, ops, disk, manifest, abort>>

\* both loops are exhausted: "[OK] Command set ... is valid and safe."
ValidateDone ==
    /\ pc = "validate"
    /\ ci > Len(command_set)
    /\ pc' = "valid"
    /\ UNCHANGED <<config, normalize, loopvars, ops, disk, manifest, abort>>

ValidateNext ==
    \/ ValidateEntry \/ ValidateRejects \/ ValidateNextCategory \/ ValidateDone

ValidateSpec == ValidateInit /\ [][ValidateNext]_vars

-----------------------------------------------------------------------------
(* Text helpers of the normalization collectors *)

\* a nullable value: None, or a value that is present
None == <<>>
Some(v) == <<v>>

\* `text or None`
OrNone(text) == IF text = <<>> THEN None ELSE Some(text)

MinOf(S) == CHOOSE x \in S : \A y \in S : x <= y
MaxOf(S) == CHOOSE x \in S : \A y \in S : x >= y

\* str.find: the 0-based index of the first occurrence, or -1
Find(hay, needle) ==
    LET hits == {i \in 0..(Len(hay) - Len(needle)) :
                    SubSeq(hay, i + 1, i + Len(needle)) = needle}
    IN  IF hits = {} THEN -1 ELSE MinOf(hits)

\* str.startswith
StartsWith(s, prefix) ==
    Len(prefix) <= Len(s) /\ SubSeq(s, 1, Len(prefix)) = prefix

\* the literal lit occurs in text at the 1-based position p
StartsWithAt(text, p, lit) ==
    /\ p >= 1
    /\ p + Len(lit) - 1 <= Len(text)
    /\ SubSeq(text, p, p + Len(lit) - 1) = lit

\* the slices s[start:] and s[start:end] of Python (0-based, end exclusive)
SliceFrom(s, start) == SubSeq(s, start + 1, Len(s))
Slice(s, start, end) ==
    SubSeq(s, start + 1, IF end < Len(s) THEN end ELSE Len(s))

\* str.splitlines() for the line breaks "\n", "\r\n" and "\r"
RECURSIVE SplitLines(_)
SplitLines(text) ==
    LET breaks == {i \in 1..Len(text) : text[i] \in {"\n", "\r"}} IN
    IF text = <<>> THEN <<>>
    ELSE IF breaks = {} THEN <<text>>
    ELSE LET b == MinOf(breaks)
             e == IF text[b] = "\r" /\ b < Len(text) /\ text[b + 1] = "\n"
                  THEN b + 1 ELSE b
         IN  <<SubSeq(text, 1, b - 1)>>
                 \o SplitLines(SubSeq(text, e + 1, Len(text)))

\* "\n".join(lines)
RECURSIVE Join(_)
Join(lines) ==
    IF lines = <<>> THEN <<>>
    ELSE IF Len(lines) = 1 THEN lines[1]
    ELSE lines[1] \o <<"\n">> \o Join(Tail(lines))

\* index after the run of characters of the set chars that starts at p
RECURSIVE RunEnd(_, _, _)
RunEnd(text, p, chars) ==
    IF p >= 1 /\ p <= Len(text) /\ text[p] \in chars
    THEN RunEnd(text, p + 1, chars)
    ELSE p

\* index after the run of non-whitespace (\S) that starts at p
RECURSIVE NonSpaceEnd(_, _)
NonSpaceEnd(text, p) ==
    IF p <= Len(text) /\ ~IsSpace(text[p]) THEN NonSpaceEnd(text, p + 1) ELSE p

\* position of the first character c at or after p, Len(text) + 1 if none
FirstAt(text, p, c) ==
    MinOf({i \in p..Len(text) : text[i] = c} \cup {Len(text) + 1})

UpperSet == {UpperChars[i] : i \in DOMAIN UpperChars}
LowerSet == {LowerChars[i] : i \in DOMAIN LowerChars}
DigitSet == {DigitChars[i] : i \in DOMAIN DigitChars}

\* the regex classes [0-9a-f] under re.IGNORECASE, [\w\.\-], [\d\.] and
\* [A-Z0-9+/=-]
HexSet == DigitSet \cup {"a", "b", "c", "d", "e", "f",
                         "A", "B", "C", "D", "E", "F"}
VersionSet == UpperSet \cup LowerSet \cup DigitSet \cup {"_", ".", "-"}
DigitDotSet == DigitSet \cup {"."}
LicenseKeySet == UpperSet \cup DigitSet \cup {"+", "/", "=", "-"}

\* artifacts.get(name, default)
ArtifactGet(arts, name, default) ==
    IF name \in DOMAIN arts THEN arts[name] ELSE default

-----------------------------------------------------------------------------
(* Literals of the normalization collectors *)

Inventory1Txt ==
    <<"i","n","v","e","n","t","o","r","y","_","1",".","t","x","t">>
Inventory5Txt ==
    <<"i","n","v","e","n","t","o","r","y","_","5",".","t","x","t">>
Poe1Txt == <<"p","o","e","_","1",".","t","x","t">>
Vlans1Txt == <<"v","l","a","n","s","_","1",".","t","x","t">>
Vlans2Txt == <<"v","l","a","n","s","_","2",".","t","x","t">>
MacTable1Txt ==
    <<"m","a","c","_","t","a","b","l","e","_","1",".","t","x","t">>
ModelLit == <<"M","O","D","E","L",":">>
VersionLit == <<"V","e","r","s","i","o","n">>
ApUptimeLit == <<"A","P"," ","u","p","t","i","m","e"," ","i","s"," ">>
ArubaModelLit ==
    <<"A","r","u","b","a","O","S"," ","(","M","O","D","E","L",":">>
CommaVersionLit == <<")",","," ","V","e","r","s","i","o","n"," ">>
SwitchUptimeLit ==
    <<"S","w","i","t","c","h"," ","u","p","t","i","m","e"," ","i","s"," ">>
LicenseTableLit == <<"L","i","c","e","n","s","e"," ","T","a","b","l","e">>
SsidListLit ==
    <<"S","S","I","D"," ","P","r","o","f","i","l","e"," ","L","i","s","t">>
VapListLit ==
    <<"V","i","r","t","u","a","l"," ","A","P"," ","p","r","o","f","i","l",
      "e"," ","L","i","s","t">>
DefaultLit == <<"d","e","f","a","u","l","t">>
DashesLit == <<"-","-","-","-">>
UnknownLit == <<"U","N","K","N","O","W","N">>

-----------------------------------------------------------------------------
(* aruba_ap.py: the parsers *)

\* re.match(r"^[0-9a-f]{2}(:[0-9a-f]{2}){5}#", s, re.IGNORECASE)
PromptLine(s) ==
    /\ Len(s) >= 18
    /\ \A k \in 0..5 :
          /\ s[3 * k + 1] \in HexSet
          /\ s[3 * k + 2] \in HexSet
          /\ s[3 * k + 3] = (IF k < 5 THEN ":" ELSE "#")

_strip_prompt_lines(text) ==
    Join(SelectSeq(SplitLines(text), LAMBDA line : ~PromptLine(Strip(line))))

\* the match of MODEL:\s*([^)]+)\).*Version\s+([\w\.\-]+) anchored at p:
\* group 1 runs to the first ")" (the whitespace after the colon is given
\* back when nothing else precedes the ")"), and .* is greedy within the
\* line, so the last "Version" of the line that is followed by whitespace
\* and a version is the one taken
ApModelMatchAt(text, p) ==
    LET s0 == p + Len(ModelLit)
        w  == SpaceEnd(text, s0)
        c  == FirstAt(text, s0, ")")
        g  == IF w < c THEN w ELSE c - 1
        le == FirstAt(text, c + 1, "\n")
        vs == {v \in (c + 1)..(le - 1) :
                  /\ StartsWithAt(text, v, VersionLit)
                  /\ LET e == SpaceEnd(text, v + Len(VersionLit))
                     IN  /\ e > v + Len(VersionLit)
                         /\ RunEnd(text, e, VersionSet) > e}
    IN  IF /\ StartsWithAt(text, p, ModelLit)
           /\ c <= Len(text)
           /\ g >= s0
           /\ vs # {}
        THEN LET e == SpaceEnd(text, MaxOf(vs) + Len(VersionLit))
             IN  [ok |-> TRUE,
                  group1 |-> SubSeq(text, g, c - 1),
                  group2 |-> SubSeq(text, e, RunEnd(text, e, VersionSet) - 1)]
        ELSE [ok |-> FALSE, group1 |-> <<>>, group2 |-> <<>>]

\* re.search of a pattern given by its anchored match: the leftmost match
ApModelSearch(text) ==
    LET ps == {p \in 1..Len(text) : ApModelMatchAt(text, p).ok}
    IN  IF ps = {} THEN [ok |-> FALSE, group1 |-> <<>>, group2 |-> <<>>]
        ELSE ApModelMatchAt(text, MinOf(ps))

\* re.search(lit + "(.+)", text): group 1 of the leftmost match, stripped,
\* or None
RestOfLineAfter(text, lit) ==
    LET ps == {p \in 1..Len(text) :
                  /\ StartsWithAt(text, p, lit)
                  /\ p + Len(lit) <= Len(text)
                  /\ text[p + Len(lit)] # "\n"}
    IN  IF ps = {} THEN None
        ELSE LET s == MinOf(ps) + Len(lit)
             IN  Some(Strip(SubSeq(text, s, FirstAt(text, s, "\n") - 1)))

_parse_inventory(text) ==
    IF text = <<>>
    THEN [os_version |-> None, model |-> None, uptime |-> None]
    ELSE LET m == ApModelSearch(text) IN
         [os_version |-> IF m.ok THEN Some(Strip(m.group2)) ELSE None,
          model      |-> IF m.ok THEN Some(Strip(m.group1)) ELSE None,
          uptime     |-> RestOfLineAfter(text, ApUptimeLit)]

\* the loop of _parse_power over the lines, a later key replacing an earlier
RECURSIVE PowerOfLines(_)
PowerOfLines(lines) ==
    IF lines = <<>> THEN EmptyFiles
    ELSE LET before == PowerOfLines(SubSeq(lines, 1, Len(lines) - 1))
             line == Strip(lines[Len(lines)])
         IN  IF line = <<>> \/ StartsWith(line, DashesLit) THEN before
             ELSE IF ~Contains(line, <<":">>) THEN before
             ELSE LET i == Find(line, <<":">>)
                  IN  (Strip(Slice(line, 0, i)) :> Strip(SliceFrom(line, i + 1)))
                          @@ before

_parse_power(text) ==
    IF text = <<>> THEN EmptyFiles
    ELSE PowerOfLines(SplitLines(_strip_prompt_lines(text)))

-----------------------------------------------------------------------------
(* aruba_controller.py: the parsers *)

\* the match of ArubaOS \(MODEL:\s*([^)]+)\), Version ([\d\.]+) anchored at p
CtrlModelMatchAt(text, p) ==
    LET s0 == p + Len(ArubaModelLit)
        w  == SpaceEnd(text, s0)
        c  == FirstAt(text, s0, ")")
        g  == IF w < c THEN w ELSE c - 1
        d  == c + Len(CommaVersionLit)
    IN  IF /\ StartsWithAt(text, p, ArubaModelLit)
           /\ c <= Len(text)
           /\ g >= s0
           /\ StartsWithAt(text, c, CommaVersionLit)
           /\ RunEnd(text, d, DigitDotSet) > d
        THEN [ok |-> TRUE,
              group1 |-> SubSeq(text, g, c - 1),
              group2 |-> SubSeq(text, d, RunEnd(text, d, DigitDotSet) - 1)]
        ELSE [ok |-> FALSE, group1 |-> <<>>, group2 |-> <<>>]

CtrlModelSearch(text) ==
    LET ps == {p \in 1..Len(text) : CtrlModelMatchAt(text, p).ok}
    IN  IF ps = {} THEN [ok |-> FALSE, group1 |-> <<>>, group2 |-> <<>>]
        ELSE CtrlModelMatchAt(text, MinOf(ps))

parse_inventory(arts) ==
    LET text == ArtifactGet(arts, Inventory1Txt, <<>>)
        m == CtrlModelSearch(text)
    IN  [os_version |-> IF m.ok THEN Some(m.group2) ELSE None,
         model      |-> IF m.ok THEN Some(m.group1) ELSE None,
         uptime     |-> RestOfLineAfter(text, SwitchUptimeLit),
         serial     |-> None]

\* re.split(r"\s{2,}", s) for a stripped s
RECURSIVE SplitWide(_)
SplitWide(s) ==
    LET gaps == {i \in 1..(Len(s) - 1) : IsSpace(s[i]) /\ IsSpace(s[i + 1])} IN
    IF gaps = {} THEN <<s>>
    ELSE <<SubSeq(s, 1, MinOf(gaps) - 1)>>
             \o SplitWide(SubSeq(s, SpaceEnd(s, MinOf(gaps)), Len(s)))

\* re.match(r"[A-Z0-9+/=-]{20,}", line)
LicenseKeyLine(line) == RunEnd(line, 1, LicenseKeySet) > 20

\* the loop of parse_licenses over the lines
RECURSIVE LicensesOfLines(_)
LicensesOfLines(lines) ==
    IF lines = <<>> THEN <<>>
    ELSE LET before == LicensesOfLines(SubSeq(lines, 1, Len(lines) - 1))
             line == lines[Len(lines)]
             parts == SplitWide(Strip(line))
         IN  IF LicenseKeyLine(line) /\ Len(parts) >= 5
             THEN Append(before,
                         [key |-> parts[1], installed |-> parts[2],
                          expires |-> parts[3], flags |-> parts[4],
                          service |-> parts[5]])
             ELSE before

parse_licenses(arts) ==
    LET text == ArtifactGet(arts, Inventory5Txt, <<>>) IN
    IF ~Contains(text, LicenseTableLit) THEN <<>>
    ELSE LicensesOfLines(SplitLines(text))

\* re.match(r"\S+\s+\d+", line)
NameCountLine(line) ==
    LET a == NonSpaceEnd(line, 1)
        b == SpaceEnd(line, a)
    IN  a > 1 /\ b > a /\ b <= Len(line) /\ IsDigit(line[b])

\* the loop shared by parse_ssids and parse_virtual_aps: line.split()[0] of
\* every matching line whose name is not "default"
RECURSIVE ProfileNames(_)
ProfileNames(lines) ==
    IF lines = <<>> THEN <<>>
    ELSE LET before == ProfileNames(SubSeq(lines, 1, Len(lines) - 1))
             line == lines[Len(lines)]
             name == SubSeq(line, 1, NonSpaceEnd(line, 1) - 1)
         IN  IF NameCountLine(line) /\ Lower(name) # DefaultLit
             THEN Append(before, name)
             ELSE before

parse_ssids(arts) ==
    LET text == ArtifactGet(arts, Vlans1Txt, <<>>) IN
    IF ~Contains(text, SsidListLit) THEN <<>>
    ELSE ProfileNames(SplitLines(text))

parse_virtual_aps(arts) ==
    LET text == ArtifactGet(arts, Vlans2Txt, <<>>) IN
    IF ~Contains(text, VapListLit) THEN <<>>
    ELSE ProfileNames(SplitLines(text))

\* the column labels parse_clients looks for, in the order of its dict
ColumnLabels ==
    << [key |-> "ip",    label |-> <<"I","P">>],
       [key |-> "mac",   label |-> <<"M","A","C">>],
       [key |-> "name",  label |-> <<"N","a","m","e">>],
       [key |-> "role",  label |-> <<"R","o","l","e">>],
       [key |-> "age",   label |-> <<"A","g","e">>],
       [key |-> "ap",    label |-> <<"A","P"," ","n","a","m","e">>],
       [key |-> "essid", label |-> <<"E","s","s","i","d">>] >>

\* columns = {key: header.find(label)}
columns(header) ==
    [i \in DOMAIN ColumnLabels |-> Find(header, ColumnLabels[i].label)]

\* sorted(...) by start, stable, of the columns chosen from the set S
RECURSIVE SortByStart(_, _)
SortByStart(cols, S) ==
    IF S = {} THEN <<>>
    ELSE LET i == CHOOSE i \in S :
                     \A j \in S : \/ cols[i] < cols[j]
                                  \/ (cols[i] = cols[j] /\ i <= j)
         IN  <<[key |-> ColumnLabels[i].key, start |-> cols[i]]>>
                 \o SortByStart(cols, S \ {i})

\* col_positions: the (key, start) pairs with start >= 0, by ascending start
col_positions(header) ==
    SortByStart(columns(header),
                {i \in DOMAIN ColumnLabels : columns(header)[i] >= 0})

\* faulty variant of the slicing: every field runs to the end of the line
slice_field_to_line_end(line, start, end) ==
    Strip(SliceFrom(line, start))

\* slice_field: `if end` is false for None and for 0
slice_field(line, start, end) ==
    IF end # None /\ end[1] # 0
    THEN Strip(Slice(line, start, end[1]))
    ELSE Strip(SliceFrom(line, start))

\* record = {key: slice_field(line, start, end) or None}
RecordOf(line, positions) ==
    [k \in {positions[i].key : i \in 1..Len(positions)} |->
        LET i == CHOOSE i \in 1..Len(positions) : positions[i].key = k
            end == IF i + 1 <= Len(positions)
                   THEN Some(positions[i + 1].start) ELSE None
        IN  OrNone(slice_field(line, positions[i].start, end))]

\* record.get(key)
RecordGet(record, k) == IF k \in DOMAIN record THEN record[k] ELSE None

\* the dict appended to clients for one data row
ClientOf(line, positions) ==
    LET record == RecordOf(line, positions) IN
    [ip       |-> RecordGet(record, "ip"),
     mac      |-> RecordGet(record, "mac"),
     name     |-> RecordGet(record, "name"),
     role     |-> RecordGet(record, "role"),
     auth_age |-> RecordGet(record, "age"),
     ap       |-> RecordGet(record, "ap"),
     essid    |-> RecordGet(record, "essid")]

\* re.match(r"\d+\.\d+\.\d+\.\d+", line)
DottedQuad(line) ==
    LET a == DigitEnd(line, 1)
        b == DigitEnd(line, a + 1)
        c == DigitEnd(line, b + 1)
        d == DigitEnd(line, c + 1)
    IN  /\ a > 1 /\ a <= Len(line) /\ line[a] = "."
        /\ b > a + 1 /\ b <= Len(line) /\ line[b] = "."
        /\ c > b + 1 /\ c <= Len(line) /\ line[c] = "."
        /\ d > c + 1

\* the first line with line.strip().startswith("IP"), None if there is none
HeaderOf(lines) ==
    LET hs == {i \in 1..Len(lines) : StartsWith(Strip(lines[i]), <<"I","P">>)}
    IN  IF hs = {} THEN None ELSE Some(lines[MinOf(hs)])

parse_clients(arts) ==
    LET lines == SplitLines(ArtifactGet(arts, MacTable1Txt, <<>>))
        header == HeaderOf(lines)
        rows == SelectSeq(lines, DottedQuad)
    IN  IF header = None THEN <<>>
        ELSE [r \in 1..Len(rows) |-> ClientOf(rows[r], col_positions(header[1]))]

-----------------------------------------------------------------------------
(* The normalization collectors: aruba_ap.run_collector and              *)
(* aruba_controller.main / build_manifest                                  *)

Collectors == {"aruba_ap", "aruba_controller"}

\* the artifact each feature is read from (the other features of the
\* capability matrix have none)
Backing ==
    IF engine = "aruba_ap"
    THEN [inventory |-> Inventory1Txt, power |-> Poe1Txt]
    ELSE [inventory |-> Inventory1Txt, licenses |-> Inventory5Txt,
          ssids |-> Vlans1Txt, virtual_aps |-> Vlans2Txt,
          clients |-> MacTable1Txt]

\* str.endswith, for the glob "*.txt"
EndsWith(s, suffix) ==
    Len(suffix) <= Len(s)
        /\ SubSeq(s, Len(s) - Len(suffix) + 1, Len(s)) = suffix

\* load_artifacts / _load_artifacts: {path.name: path.read_text()} over
\* artifacts_dir.glob("*.txt")
load_artifacts(dir) ==
    [n \in {m \in DOMAIN dir : EndsWith(m, DotTxt)} |-> dir[n]]

\* `if inv_text:` for inv_text = artifacts.get(name)
Truthy(arts, name) == name \in DOMAIN arts /\ arts[name] # <<>>

\* aruba_ap.run_collector: capabilities, inventory, power and the manifest
\* dict (collected_at, a clock reading, is left out)
ApManifest(arts) ==
    [collector |-> "aruba_ap",
     collector_version |-> "1.1",
     capabilities |->
        [inventory  |-> IF Truthy(arts, Inventory1Txt)
                        THEN "supported" ELSE "not_supported",
         power      |-> IF Truthy(arts, Poe1Txt)
                        THEN "supported" ELSE "not_supported",
         interfaces |-> "not_supported",
         vlans      |-> "not_supported",
         lldp       |-> "not_supported",
         clients    |-> "not_supported",
         ssids      |-> "not_supported",
         mac_table  |-> "not_supported"],
     parse_notes |-> <<>>,
     inventory |-> IF Truthy(arts, Inventory1Txt)
                   THEN _parse_inventory(arts[Inventory1Txt]) ELSE EmptyFiles,
     power |-> IF Truthy(arts, Poe1Txt)
               THEN _parse_power(arts[Poe1Txt]) ELSE EmptyFiles]

\* aruba_controller.build_manifest: the manifest dict
CtrlManifest(arts) ==
    [collector |-> "aruba_controller",
     collector_version |-> "1.1",
     capabilities |->
        [inventory   |-> "supported",
         licenses    |-> "supported",
         clients     |-> "supported",
         ssids       |-> "supported",
         virtual_aps |-> "supported",
         interfaces  |-> "not_supported",
         lldp        |-> "not_supported",
         poe         |-> "not_supported",
         vlans       |-> "not_supported"],
     parse_notes |-> <<>>,
     inventory   |-> parse_inventory(arts),
     licenses    |-> parse_licenses(arts),
     ssids       |-> parse_ssids(arts),
     virtual_aps |-> parse_virtual_aps(arts),
     clients     |-> parse_clients(arts)]

(* The artifact directories the collectors are checked on *)

ApInventoryText ==
    <<"A","r","u","b","a","O","S"," ","(","M","O","D","E","L",":"," ","5",
      "1","5",")",","," ","V","e","r","s","i","o","n"," ","8",".","6",".",
      "0",".","4","\n","A","P"," ","u","p","t","i","m","e"," ","i","s"," ",
      "2"," ","h","o","u","r","s","\n">>
PowerText ==
    <<"b","c",":","9","f",":","e","4",":","c","3",":","f","2",":","8","2",
      "#"," ","s","h","o","w"," ","a","p"," ","d","e","b","u","g"," ","p",
      "o","w","e","r","\n","P","o","w","e","r"," ","S","u","p","p","l","y",
      ":"," ","P","O","E","-","A","T","\n","-","-","-","-","\n","L","L","D",
      "P"," ","P","o","w","e","r"," ",":"," ","2","5",".","5","W","\n","n",
      "o","t","e","\n">>
\* an inventory whose first line is the prompt with text after it that the
\* uptime pattern matches
EchoedInventoryText ==
    <<"b","c",":","9","f",":","e","4",":","c","3",":","f","2",":","8","2",
      "#"," ","A","P"," ","u","p","t","i","m","e"," ","i","s"," ","0","\n",
      "A","r","u","b","a","O","S"," ","(","M","O","D","E","L",":"," ","5",
      "1","5",")",","," ","V","e","r","s","i","o","n"," ","8",".","6",".",
      "0",".","4","\n","A","P"," ","u","p","t","i","m","e"," ","i","s"," ",
      "2"," ","h","o","u","r","s","\n">>
\* a power report whose first line is the prompt and nothing else
PromptedPowerText ==
    <<" ","b","c",":","9","F",":","e","4",":","c","3",":","f","2",":","8",
      "2","#"," ","\n","P","o","w","e","r"," ","S","u","p","p","l","y",":",
      " ","P","O","E","-","A","T","\r","\n","k","e","p","t"," ","l","i","n",
      "e"," ","\n">>
CtrlInventoryText ==
    <<"A","r","u","b","a","O","S"," ","(","M","O","D","E","L",":"," ","7",
      "2","1","0",")",","," ","V","e","r","s","i","o","n"," ","8",".","6",
      ".","0","\n","S","w","i","t","c","h"," ","u","p","t","i","m","e"," ",
      "i","s"," ","1"," ","d","a","y"," ","\n">>
LicenseText ==
    <<"L","i","c","e","n","s","e"," ","T","a","b","l","e","\n","K","e","y",
      " "," ","I","n","s","t","a","l","l","e","d","\n","A","B","C","D","E",
      "F","G","H","I","J","0","1","2","3","4","5","6","7","8","9","+","/",
      "-","="," "," ","2","0","2","0","-","0","1"," "," ","N","e","v","e",
      "r"," "," ","E"," "," ","A","c","c","e","s","s"," ","P","o","i","n",
      "t","s","\n">>
SsidText ==
    <<"S","S","I","D"," ","P","r","o","f","i","l","e"," ","L","i","s","t",
      "\n","N","a","m","e"," "," ","R","e","f","e","r","e","n","c","e","s",
      "\n","c","o","r","p"," "," ","2","\n","d","e","f","a","u","l","t"," ",
      " ","1","\n">>
VapText ==
    <<"V","i","r","t","u","a","l"," ","A","P"," ","p","r","o","f","i","l",
      "e"," ","L","i","s","t","\n","N","a","m","e"," "," ","R","e","f","e",
      "r","e","n","c","e","s","\n","g","u","e","s","t","-","v","a","p"," ",
      " ","3","\n","D","e","f","a","u","l","t"," "," ","0","\n">>
TableTitle == <<"U","s","e","r","s","\n","-","-","-","-","-","\n">>
IpShort == <<"1",".","1",".","1",".","1">>
IpLong == <<"1","0",".","0",".","0",".","2","0">>

\* texts without any structure a parser recognizes
UnstructuredTexts == {<<>>, BlankText, PlainText}

\* a column of a client table: its label, its width and the value a row
\* shows in it when the field is not blank
Column(label, width, value) == [label |-> label, width |-> width, value |-> value]

\* every recognized column, aligned
FullLayout ==
    [indent |-> 0,
     cols |-> << Column(<<"I","P">>, 10, IpShort),
                 Column(<<"M","A","C">>, 6, <<"a","a",":","b","b">>),
                 Column(<<"N","a","m","e">>, 5, <<"b","o","b">>),
                 Column(<<"R","o","l","e">>, 5, <<"a","u","t","h">>),
                 Column(<<"A","g","e">>, 6, <<"0","0",":","0","1">>),
                 Column(<<"A","P"," ","n","a","m","e">>, 8, <<"A","P"," ","1","2">>),
                 Column(<<"E","s","s","i","d">>, 5, <<"c","o","r","p">>) >>]

\* an indented header, columns in another order, a column the parser does
\* not know, and an address column narrower than the longer address
ShuffledLayout ==
    [indent |-> 2,
     cols |-> << Column(<<"I","P">>, 8, IpShort),
                 Column(<<"N","a","m","e">>, 5, <<"b","o","b">>),
                 Column(<<"A","u","t","h">>, 5, <<"8","0","2">>),
                 Column(<<"A","P"," ","n","a","m","e">>, 8, <<"A","P"," ","1","2">>),
                 Column(<<"A","g","e">>, 4, <<"9">>) >>]

Layouts == {FullLayout, ShuffledLayout}

Spaces(n) == [i \in 1..n |-> " "]

\* text, then blanks up to the width of its column
Pad(text, width) == text \o Spaces(width - Len(text))

RECURSIVE HeaderCells(_)
HeaderCells(cols) ==
    IF cols = <<>> THEN <<>>
    ELSE HeaderCells(SubSeq(cols, 1, Len(cols) - 1))
             \o Pad(cols[Len(cols)].label, cols[Len(cols)].width)

\* the row for an address and the set of further columns that are filled
RECURSIVE RowCells(_, _, _, _)
RowCells(cols, n, ip, filled) ==
    IF n = 0 THEN <<>>
    ELSE RowCells(cols, n - 1, ip, filled)
             \o (IF n = 1 THEN Pad(ip, IF Len(ip) < cols[1].width
                                       THEN cols[1].width ELSE Len(ip))
                 ELSE IF n \in filled THEN Pad(cols[n].value, cols[n].width)
                 ELSE Spaces(cols[n].width))

\* the rows of a table: the chosen one, then rows that swap the address and
\* the blank fields
RECURSIVE TableRows(_, _, _, _, _)
TableRows(layout, n, ip, filled, trimmed) ==
    IF n = 0 THEN <<>>
    ELSE LET row == RowCells(layout.cols, Len(layout.cols), ip, filled)
             others == (2..Len(layout.cols)) \ filled
         IN  (IF trimmed THEN RStrip(row) ELSE row) \o <<"\n">>
                 \o TableRows(layout, n - 1,
                              IF ip = IpShort THEN IpLong ELSE IpShort,
                              others, trimmed)

\* title, header, separator and n rows
Table(layout, n, ip, filled, trimmed) ==
    TableTitle \o Spaces(layout.indent) \o HeaderCells(layout.cols)
        \o <<"\n", "-", "-", "\n">>
        \o TableRows(layout, n, ip, filled, trimmed)

ClientTables ==
    {Table(layout, n, ip, filled, trimmed) :
        layout \in Layouts, n \in 1..MaxRows, ip \in {IpShort, IpLong},
        filled \in SUBSET (2..5), trimmed \in BOOLEAN}
    \cup {Table(FullLayout, n, IpShort, filled, FALSE) :
            n \in 1..MaxRows, filled \in SUBSET (2..7)}

\* a file of the directory: absent, or present with a text
FileIf(name, choice) ==
    IF choice = None THEN EmptyFiles ELSE (name :> choice[1])

\* absent, present without structure, or present with the given text
Choices(structured) ==
    {None} \cup {Some(t) : t \in UnstructuredTexts \cup {structured}}

CollectInit ==
    /\ engine \in Collectors
    /\ \/ /\ engine = "aruba_ap"
          /\ \E inv \in Choices(ApInventoryText) \cup {Some(EchoedInventoryText)},
                poe \in Choices(PowerText) \cup {Some(PromptedPowerText)},
                other \in Choices(VapText) :
                files = FileIf(Inventory1Txt, inv) @@ FileIf(Poe1Txt, poe)
                          @@ FileIf(Vlans2Txt, other)
       \/ /\ engine = "aruba_controller"
          /\ \E inv \in Choices(CtrlInventoryText), lic \in Choices(LicenseText),
                ssid \in Choices(SsidText), vap \in Choices(VapText),
                mac \in Choices(Table(FullLayout, 1, IpShort, {2, 4}, FALSE)) :
                files = FileIf(Inventory1Txt, inv) @@ FileIf(Inventory5Txt, lic)
                          @@ FileIf(Vlans1Txt, ssid) @@ FileIf(Vlans2Txt, vap)
                          @@ FileIf(MacTable1Txt, mac)
       \/ /\ engine = "aruba_controller"
          /\ \E table \in ClientTables : files = (MacTable1Txt :> table)
    /\ command_set = <<>>
    /\ blocked = <<>>
    /\ paging_cmds = <<>>
    /\ pc = "load_artifacts"
    /\ phase = "default"
    /\ pi = 1 /\ ci = 1 /\ ei = 1 /\ vi = 1
    /\ cmd_index = 1
    /\ vlan_ids = <<>>
    /\ cmd = <<>>
    /\ result = NoResult
    /\ ops = <<>>
    /\ manifest = EmptyFiles
    /\ manifest_file = <<>>
    /\ abort = ""
    /\ artifacts = EmptyFiles
    /\ ap_manifest = <<>>
    /\ ctrl_manifest = <<>>
    /\ out_file = <<>>
    /\ probe_run = <<>>

\* artifacts = load_artifacts(probe_dir)
LoadArtifacts ==
    /\ pc = "load_artifacts"
    /\ artifacts' = load_artifacts(files)
    /\ pc' = "build_manifest"
    /\ UNCHANGED <<config, loopvars, ops, disk, manifest, abort,
                   ap_manifest, ctrl_manifest, out_file>>

\* the manifest dict is built: capabilities and one parser per feature
BuildManifest ==
    /\ pc = "build_manifest"
    /\ manifest' = IF engine = "aruba_ap"
                   THEN ApManifest(artifacts) ELSE CtrlManifest(artifacts)
    /\ pc' = "write_collector_manifest"
    /\ UNCHANGED <<config, normalize, loopvars, ops, disk, abort>>

\* manifest_path.write_text(json.dumps(manifest, indent=2))
WriteCollectorManifest ==
    /\ pc = "write_collector_manifest"
    /\ manifest_file' = <<manifest>>
    /\ pc' = "collected"
    /\ UNCHANGED <<config, normalize, loopvars, ops, files, manifest, abort>>

CollectNext == LoadArtifacts \/ BuildManifest \/ WriteCollectorManifest

CollectSpec == CollectInit /\ [][CollectNext]_vars

-----------------------------------------------------------------------------
(* derive_ap_client_map.main *)

\* a JSON document is modelled by what json.loads makes of it: an object is
\* a function on its keys, an array a sequence, and a value is None (null)
\* or Some(v); json_document is the document json.dumps writes for a
\* manifest dict of the collectors, none of whose top-level values is None
json_document(d) == [k \in DOMAIN d |-> Some(d[k])]

\* dict.get(key): None for a missing key and for null
JsonGet(doc, key) == IF key \in DOMAIN doc THEN doc[key] ELSE None

\* ctrl_manifest.get("clients", []): the default only replaces a missing key
ClientsOf(doc) == IF "clients" \in DOMAIN doc THEN doc.clients ELSE Some(<<>>)

IncompatibilityNote ==
    "AP collector does not yet emit AP names compatible with controller client AP fields"

\* ap_name = client.get("ap") or "UNKNOWN"
ApNameOf(client) ==
    IF JsonGet(client, "ap") # None /\ JsonGet(client, "ap")[1] # <<>>
    THEN client.ap[1]
    ELSE UnknownLit

\* faulty variant of the grouping step: the group is replaced, not extended
AppendTo_overwrites(aps, name, client) ==
    (name :> <<client>>) @@ aps

\* result["aps"].setdefault(ap_name, []).append(client)
AppendTo(aps, name, client) ==
    IF name \in DOMAIN aps
    THEN [aps EXCEPT ![name] = Append(@, client)]
    ELSE (name :> <<client>>) @@ aps

\* the loop `for client in ctrl_manifest.get("clients", [])`
RECURSIVE GroupedBy(_)
GroupedBy(clients) ==
    IF clients = <<>> THEN EmptyFiles
    ELSE AppendTo(GroupedBy(SubSeq(clients, 1, Len(clients) - 1)),
                  ApNameOf(clients[Len(clients)]), clients[Len(clients)])

(* The manifests the derivation is checked on *)

ApNames == { <<"A","P","-","1","2">>, <<"A","P","-","7">>, UnknownLit }
Macs == { <<"a","a">>, <<"b","b">> }

\* client records: the AP field a name, empty, null or missing
ClientRecords ==
    {[mac |-> Some(m), ap |-> a] :
        m \in Macs, a \in {None, Some(<<>>)} \cup {Some(n) : n \in ApNames}}
    \cup {[mac |-> Some(m)] : m \in Macs}

ClientLists == UNION {[1..n -> ClientRecords] : n \in 0..MaxClients}

\* a document with every value null
Nulled(doc) == [k \in DOMAIN doc |-> None]

\* the document without the key "clients"
WithoutClients(doc) == [k \in DOMAIN doc \ {"clients"} |-> doc[k]]

\* what aruba_ap writes, with and without an inventory, and documents with
\* null values or no key at all
ApDocs ==
    { json_document(ApManifest(EmptyFiles)),
      json_document(ApManifest(Inventory1Txt :> ApInventoryText)),
      Nulled(json_document(ApManifest(EmptyFiles))),
      EmptyFiles }

\* what aruba_controller writes for a parsed client table, and documents
\* whose clients are a list, null or missing, the other values present or null
CtrlDocs ==
    LET written == json_document(CtrlManifest(EmptyFiles)) IN
    { json_document(CtrlManifest(
          MacTable1Txt :> Table(FullLayout, 2, IpShort, {2, 4, 6}, FALSE))),
      Nulled(written), WithoutClients(written), WithoutClients(Nulled(written)) }
    \cup {[written EXCEPT !.clients = Some(list)] : list \in ClientLists}
    \cup {[Nulled(written) EXCEPT !.clients = Some(list)] :
             list \in {l \in ClientLists : Len(l) <= 1}}

DeriveInit ==
    /\ engine = "derive"
    /\ ap_manifest \in {<<>>} \cup {<<d>> : d \in ApDocs}
    /\ ctrl_manifest \in {<<>>} \cup {<<d>> : d \in CtrlDocs}
    /\ out_file = <<>>
    /\ probe_run = <<>>
    /\ artifacts = EmptyFiles
    /\ command_set = <<>>
    /\ blocked = <<>>
    /\ paging_cmds = <<>>
    /\ pc = "load_manifest"
    /\ phase = "default"
    /\ pi = 1 /\ ci = 1 /\ ei = 1 /\ vi = 1
    /\ cmd_index = 1
    /\ vlan_ids = <<>>
    /\ cmd = <<>>
    /\ result = NoResult
    /\ ops = <<>>
    /\ files = EmptyFiles
    /\ manifest = EmptyFiles
    /\ manifest_file = <<>>
    /\ abort = ""

\* both load_manifest calls return
LoadManifests ==
    /\ pc = "load_manifest"
    /\ ap_manifest # <<>> /\ ctrl_manifest # <<>>
    /\ pc' = "build_result"
    /\ UNCHANGED <<config, normalize, loopvars, ops, disk, manifest, abort>>

\* load_manifest raises FileNotFoundError: a manifest file does not exist
LoadManifestRaises ==
    /\ pc = "load_manifest"
    /\ ap_manifest = <<>> \/ ctrl_manifest = <<>>
    /\ Raise("load_manifest")
    /\ UNCHANGED <<config, normalize, loopvars, ops, disk, manifest>>

\* result = {...}: source, summary with clients_seen = len(clients), and
\* the note (derived_at, a clock reading, is left out)
BuildResult ==
    /\ pc = "build_result"
    /\ ClientsOf(ctrl_manifest[1]) # None
    /\ result' =
          [source |->
              [ap_collector |-> JsonGet(ap_manifest[1], "collector"),
               ap_version |-> JsonGet(ap_manifest[1], "collector_version"),
               controller_collector |-> JsonGet(ctrl_manifest[1], "collector"),
               controller_version |->
                   JsonGet(ctrl_manifest[1], "collector_version")],
           summary |-> [aps_seen |-> 0,
                        clients_seen |-> Len(ClientsOf(ctrl_manifest[1])[1]),
                        clients_correlated |-> 0],
           notes |-> <<IncompatibilityNote>>,
           aps |-> EmptyFiles]
    /\ pc' = "group"
    /\ UNCHANGED <<config, normalize, phase, pi, ci, ei, vi, cmd_index,
                   vlan_ids, cmd, ops, disk, manifest, abort>>

\* len(ctrl_manifest.get("clients", [])) raises TypeError: clients is null
BuildResultRaises ==
    /\ pc = "build_result"
    /\ ClientsOf(ctrl_manifest[1]) = None
    /\ Raise("build_result")
    /\ UNCHANGED <<config, normalize, loopvars, ops, disk, manifest>>

\* the grouping loop and result["summary"]["aps_seen"] = len(result["aps"])
GroupClients ==
    /\ pc = "group"
    /\ LET aps == GroupedBy(ClientsOf(ctrl_manifest[1])[1]) IN
       result' = [result EXCEPT !.aps = aps,
                                !.summary.aps_seen = Cardinality(DOMAIN aps)]
    /\ pc' = "write_output"
    /\ UNCHANGED <<config, normalize, phase, pi, ci, ei, vi, cmd_index,
                   vlan_ids, cmd, ops, disk, manifest, abort>>

\* derived_dir.mkdir(...); out_path.write_text(json.dumps(result, indent=2))
WriteOutput ==
    /\ pc = "write_output"
    /\ out_file' = <<result>>
    /\ pc' = "derived"
    /\ UNCHANGED <<config, loopvars, ops, disk, manifest, abort, artifacts,
                   ap_manifest, ctrl_manifest>>

DeriveNext ==
    \/ LoadManifests \/ LoadManifestRaises
    \/ BuildResult \/ BuildResultRaises
    \/ GroupClients \/ WriteOutput

DeriveSpec == DeriveInit /\ [][DeriveNext]_vars

-----------------------------------------------------------------------------
(* extract_vlan_ids on its own: `show vlan` outputs built line by line *)

\* the lines an output is built from: an id followed by a blank, an indented
\* id with a name, a two-digit id followed by a tab, an id that begins no
\* line, an empty line, digits followed by a letter, a blank line, a bare id
OutputLines ==
    { <<"1"," ">>, <<" ","2"," ","x">>, <<"1","0","\t","N">>, <<"x"," ","3">>,
      <<>>, <<"4","x">>, <<" ">>, <<"7">> }

\* the output whose lines are the given ones, each ended by a newline
RECURSIVE Terminated(_)
Terminated(lines) ==
    IF lines = <<>> THEN <<>>
    ELSE lines[1] \o <<"\n">> \o Terminated(Tail(lines))

\* every output of at most MaxLines lines
Outputs ==
    {Terminated(lines) : lines \in UNION {[1..n -> OutputLines] : n \in 0..MaxLines}}

ExtractInit ==
    /\ engine = "extract"
    /\ \E text \in Outputs :
          result = [status |-> "success", output |-> text, error |-> <<>>]
    /\ command_set = <<>>
    /\ blocked = <<>>
    /\ paging_cmds = <<>>
    /\ pc = "extract"
    /\ phase = "phase1"
    /\ pi = 1 /\ ci = 1 /\ ei = 1 /\ vi = 1
    /\ cmd_index = 1
    /\ vlan_ids = <<>>
    /\ cmd = ShowVlan
    /\ ops = <<>>
    /\ files = EmptyFiles
    /\ manifest = [command_attempts |-> <<>>, artifacts |-> <<>>,
                   results |-> EmptyResults]
    /\ manifest_file = <<>>
    /\ abort = ""
    /\ artifacts = EmptyFiles
    /\ ap_manifest = <<>>
    /\ ctrl_manifest = <<>>
    /\ out_file = <<>>
    /\ probe_run = <<>>

\* vlan_ids = extract_vlan_ids(result["output"])
ExtractVlanIds ==
    /\ pc = "extract"
    /\ vlan_ids' = extract_vlan_ids(result.output)
    /\ pc' = "extracted"
    /\ UNCHANGED <<config, normalize, phase, pi, ci, ei, vi, cmd_index, cmd,
                   result, ops, disk, manifest, abort>>

ExtractNext == ExtractVlanIds

ExtractSpec == ExtractInit /\ [][ExtractNext]_vars

-----------------------------------------------------------------------------
(* run_probe and the ArubaOS-Switch run_collector on the same device: the
   probe runs to its end, then the collector runs on the same command set
   against a session that answers as it answered the probe *)

EquivInit ==
    /\ Init
    /\ engine = "probe"

\* the session answers the collector as it answered run_probe: the k-th
\* operation, when it is the operation run_probe made k-th, gets the reply
\* run_probe got, and connect_aruba_os raises for one exactly if it raised
\* for the other
SameResponses ==
    probe_run # <<>> =>
        LET ref == probe_run[1].ops
            k   == Len(ops')
        IN  /\ pc = "connect" =>
                ((pc' = "aborted") <=> (probe_run[1].abort = "connect"))
            /\ (/\ k = Len(ops) + 1
                /\ k <= Len(ref)
                /\ ref[k].op = ops'[k].op
                /\ ref[k].by = ops'[k].by
                /\ ref[k].cmd = ops'[k].cmd) => ops'[k].reply = ref[k].reply

\* run_collector of aruba_os_switch starts once run_probe has ended: a new
\* session, a new run directory and a new manifest, the same command set
RunCollectorAfterProbe ==
    /\ engine = "probe"
    /\ probe_run = <<>>
    /\ pc \in {"done", "aborted"}
    /\ probe_run' = <<[ops |-> ops, files |-> files, manifest |-> manifest,
                       manifest_file |-> manifest_file, pc |-> pc,
                       abort |-> abort]>>
    /\ engine' = "os"
    /\ pc' = "connect"
    /\ phase' = "default"
    /\ pi' = 1 /\ ci' = 1 /\ ei' = 1 /\ vi' = 1
    /\ cmd_index' = 1
    /\ vlan_ids' = <<>>
    /\ cmd' = <<>>
    /\ result' = NoResult
    /\ ops' = <<>>
    /\ files' = EmptyFiles
    /\ manifest' = [command_attempts |-> <<>>, artifacts |-> <<>>,
                    results |-> EmptyResults]
    /\ manifest_file' = <<>>
    /\ abort' = ""
    /\ UNCHANGED <<command_set, blocked, paging_cmds, normalize>>

\* every step of either run is a step of the run (Next), answered as above
EquivNext ==
    \/ Connect /\ SameResponses
    \/ ConnectFails /\ SameResponses
    \/ DisablePaging /\ SameResponses
    \/ DisablePagingRaises /\ SameResponses
    \/ PagingDone /\ SameResponses
    \/ CategoryLoop /\ SameResponses
    \/ CategoriesDone /\ SameResponses
    \/ Phase1Skip /\ SameResponses
    \/ Phase1Select /\ SameResponses
    \/ Phase1ToPhase2 /\ SameResponses
    \/ Phase1NoIds /\ SameResponses
    \/ Phase2Skip /\ SameResponses
    \/ Phase2Select /\ SameResponses
    \/ Phase2NextTemplate /\ SameResponses
    \/ Phase2End /\ SameResponses
    \/ DefaultSelect /\ SameResponses
    \/ DefaultEnd /\ SameResponses
    \/ Gate /\ SameResponses
    \/ Flush /\ SameResponses
    \/ FlushRaises /\ SameResponses
    \/ Send /\ SameResponses
    \/ Record /\ SameResponses
    \/ Disconnect /\ SameResponses
    \/ DisconnectRaises /\ SameResponses
    \/ WriteManifest /\ SameResponses
    \/ RunCollectorAfterProbe

EquivSpec == EquivInit /\ [][EquivNext]_vars

-----------------------------------------------------------------------------
(* Vocabulary of the properties *)

\* word occurs in command when both are compared without regard to case
OccursIgnoringCase(command, word) == Contains(Lower(command), Lower(word))

\* every command text of the command set
AllCommands ==
    UNION {{command_set[k].commands[j] : j \in 1..Len(command_set[k].commands)} :
              k \in 1..Len(command_set)}

\* C3: the validation is rejected if and only if some command of the set
\* holds some entry of the blocked-terms list as a substring, both compared
\* case-insensitively, whatever the letter case of the entries.
C3_GateIffCaseInsensitiveMatch ==
    /\ pc = "aborted" =>
          \E i \in 1..Len(blocked) : OccursIgnoringCase(cmd, blocked[i])
    /\ pc = "valid" =>
          \A c \in AllCommands : \A i \in 1..Len(blocked) :
              ~OccursIgnoringCase(c, blocked[i])

\* the send at position i of the history was gated just before: the nearest
\* earlier gate check or send is a gate check of the very same text
GatedJustBefore(i) ==
    \E j \in 1..(i - 1) :
        /\ ops[j].op = "gate"
        /\ ops[j].cmd = ops[i].cmd
        /\ \A k \in (j + 1)..(i - 1) : ops[k].op = "read_channel"

\* C1 as stated: every command sent to the session, whoever sends it, was
\* passed to the Safety Gate on its exact text immediately before the send.
C1_EverySendGated ==
    \A i \in 1..Len(ops) : ops[i].op = "send" => GatedJustBefore(i)

\* C1 as amended: every command sent by execute_command (every category
\* command, rendered ones included) was passed to the Safety Gate on its exact
\* final text immediately before that send, with no other send in between;
\* the paging-disable commands are sent without any gate check before them.
C1_EveryExecutedCommandGated ==
    \A i \in 1..Len(ops) :
        /\ (ops[i].op = "send" /\ ops[i].by = "execute_command")
              => GatedJustBefore(i)
        /\ (ops[i].op = "send" /\ ops[i].by = "disable_paging")
              => \A j \in 1..(i - 1) : ops[j].op # "gate"

\* a rendered command was sent in a run that also sent a paging command
C1_Witness ==
    /\ pc = "record" /\ phase = "phase2"
    /\ paging_cmds # <<>>
    /\ cmd = render_command(PlainTemplate, 1)
    /\ ops[Len(ops)].op = "send" /\ ops[Len(ops)].cmd = cmd

ExecutedSends ==
    {i \in 1..Len(ops) : ops[i].op = "send" /\ ops[i].by = "execute_command"}

\* C2: when the Safety Gate rejects a command the run ends there: the gate
\* check is the last thing the run did, the command was never sent by
\* execute_command, no artifact entry or file was produced for it, and no
\* manifest file was written.
C2_GateRejectionAborts ==
    abort = "gate" =>
        /\ pc = "aborted"
        /\ ops[Len(ops)].op = "gate" /\ ops[Len(ops)].cmd = cmd
        /\ \A i \in ExecutedSends : ops[i].cmd # cmd
        /\ \A k \in 1..Len(manifest.artifacts) : manifest.artifacts[k].command # cmd
        /\ Cardinality(ExecutedSends) = Len(manifest.artifacts)
        /\ manifest_file = <<>>

\* a rendered command was rejected after earlier commands left artifacts
C2_Witness ==
    /\ abort = "gate"
    /\ phase = "phase2"
    /\ files # EmptyFiles
    /\ ci < Len(command_set)

\* the summary command has already succeeded in the current category
SummarySucceeded ==
    \E k \in 1..Len(manifest.results[CurCategory][OkKey]) :
        Strip(manifest.results[CurCategory][OkKey][k]) = ShowVlan

\* C4: in the vlans category only the first successful execution of the
\* summary command seeds the id list: once the summary command has succeeded,
\* recording a later command of the category leaves the id list as it was,
\* whatever the first successful output contained.
C4_OnlyFirstSummarySeeds ==
    [][(pc = "record" /\ phase = "phase1" /\ SummarySucceeded)
          => vlan_ids' = vlan_ids]_vars

\* the templates of a category that hold the placeholder / that do not, in
\* declared order
SelectSeq2(seq, Keep(_)) ==
    LET F[i \in 0..Len(seq)] ==
            IF i = 0 THEN <<>>
            ELSE IF Keep(seq[i]) THEN Append(F[i - 1], seq[i]) ELSE F[i - 1]
    IN  F[Len(seq)]

HasPlaceholder(t) == Contains(t, Placeholder)
HasNoPlaceholder(t) == ~Contains(t, Placeholder)
PlaceholderTemplates(commands) == SelectSeq2(commands, HasPlaceholder)
PlainCommands(commands) == SelectSeq2(commands, HasNoPlaceholder)

\* the text of a template with the placeholder replaced by the id's decimal
\* digits, written without the renderer
RECURSIVE Substituted(_, _)
Substituted(t, id) ==
    IF Len(t) < Len(Placeholder) THEN t
    ELSE IF SubSeq(t, 1, Len(Placeholder)) = Placeholder
         THEN ToStr(id) \o Substituted(SubSeq(t, Len(Placeholder) + 1, Len(t)), id)
         ELSE <<Head(t)>> \o Substituted(Tail(t), id)

\* template by template in declared order, id by id in discovery order
ExpectedExpansion(templates, ids) ==
    [n \in 1..(Len(templates) * Len(ids)) |->
        Substituted(templates[((n - 1) \div Len(ids)) + 1],
                    ids[((n - 1) % Len(ids)) + 1])]

\* phase 2 of the current category has just finished
Phase2Finished == pc = "loop" /\ phase = "phase2" /\ ei > Len(CurCommands)

LastArtifacts(n) ==
    SubSeq(manifest.artifacts, Len(manifest.artifacts) - n + 1,
           Len(manifest.artifacts))

GateChecks == SelectSeq(ops, LAMBDA o : o.op = "gate")
ExecutedSendOps ==
    SelectSeq(ops, LAMBDA o : o.op = "send" /\ o.by = "execute_command")

\* the command texts of a sequence of history or artifact entries
CommandsOf(entries) ==
    [k \in 1..Len(entries) |->
        IF "command" \in DOMAIN entries[k] THEN entries[k].command
        ELSE entries[k].cmd]

\* the vlans category before the current one ended phase 1 with no ids
VlansLeftWithoutIds ==
    /\ pc = "category"
    /\ ci > 1
    /\ engine # "cx"
    /\ command_set[ci - 1].category = VlansCat
    /\ vlan_ids = <<>>

ArtifactsOf(category) ==
    SelectSeq(manifest.artifacts, LAMBDA a : a.category = category)

\* C6: if phase 1 of the vlans category ends with an empty id list, the run
\* is at the head of the category loop for the next category, the artifact
\* entries of the category are those of its templates without placeholder,
\* in order, and nothing else was gated or sent: the gate checks and the
\* sends of execute_command are, one for one, the artifact entries.
C6_NoIdsNoExpansion ==
    VlansLeftWithoutIds =>
        LET done == command_set[ci - 1] IN
        /\ CommandsOf(ArtifactsOf(done.category)) = PlainCommands(done.commands)
        /\ CommandsOf(GateChecks) = CommandsOf(manifest.artifacts)
        /\ CommandsOf(ExecutedSendOps) = CommandsOf(manifest.artifacts)

\* the summary succeeded with no matching line, placeholder templates are
\* declared, and a further category is waiting
C6_Witness ==
    /\ VlansLeftWithoutIds
    /\ ci <= Len(command_set)
    /\ PlaceholderTemplates(command_set[ci - 1].commands) # <<>>
    /\ \E k \in 1..Len(manifest.results[VlansCat][OkKey]) :
          manifest.results[VlansCat][OkKey][k] = ShowVlan

\* the category has one summary template, one plain and one detail
\* placeholder template
SummaryPlainDetail ==
    /\ Len(CurCommands) = 3
    /\ \E a, b, c \in 1..3 :
          /\ {a, b, c} = {1, 2, 3}
          /\ Strip(CurCommands[a]) = ShowVlan
          /\ HasPlaceholder(CurCommands[b]) /\ ~Contains(CurCommands[b], DetailMark)
          /\ HasPlaceholder(CurCommands[c]) /\ Contains(CurCommands[c], DetailMark)

PairwiseDistinctPaths(entries) ==
    \A j, k \in 1..Len(entries) : j # k => entries[j].path # entries[k].path

\* C7: for a vlans category with one summary, one plain and one detail
\* template and any list of n discovered ids, phase 2 produces exactly 2*n
\* artifacts whose file names are pairwise distinct.
C7_TwoDistinctArtifactsPerId ==
    (Phase2Finished /\ SummaryPlainDetail) =>
        /\ Len(ArtifactsOf(CurCategory)) = 1 + 2 * Len(vlan_ids)
        /\ PairwiseDistinctPaths(LastArtifacts(2 * Len(vlan_ids)))

\* C8: any two distinct executions of a run are written to different paths,
\* and after a completed run there are as many artifact files as executed
\* commands.
C8_OneFilePerExecution ==
    /\ PairwiseDistinctPaths(manifest.artifacts)
    /\ pc = "done" =>
          Cardinality(DOMAIN files) = Cardinality(ExecutedSends)

Blank(text) == \A i \in 1..Len(text) : IsSpace(text[i])

\* C9: after execute_command the status is one of success, empty, failed; it
\* is failed exactly when the send raised, and then output and error are both
\* the exception text; otherwise there is no error, the output is what the
\* session returned, and the status is empty exactly when that output is
\* empty or whitespace-only; the artifact holds exactly the output.
C9_Classification ==
    /\ pc = "record" =>
          LET reply == ops[Len(ops)].reply IN
          /\ result.status \in {"success", "empty", "failed"}
          /\ result.status = "failed" <=> reply.raised
          /\ reply.raised => result.output = reply.text /\ result.error = <<reply.text>>
          /\ ~reply.raised => result.output = reply.text /\ result.error = <<>>
          /\ result.status = "empty" <=> (~reply.raised /\ Blank(reply.text))
    /\ (pc = "loop" /\ manifest.artifacts # <<>>) =>
          files[manifest.artifacts[Len(manifest.artifacts)].path] = result.output

\* a whitespace-only output was classified empty and persisted as returned
C9_Witness ==
    /\ pc = "loop"
    /\ result.status = "empty"
    /\ result.output = BlankText
    /\ manifest.artifacts # <<>>
    /\ files[manifest.artifacts[Len(manifest.artifacts)].path] = BlankText

\* some execution of the run ended failed or empty
SomeNonSuccess ==
    \E c \in DOMAIN manifest.results : manifest.results[c][BadKey] # <<>>

CompleteCount(k, count) ==
    LET commands == command_set[k].commands IN
    IF engine # "cx" /\ command_set[k].category = VlansCat
    THEN \E n \in 0..count :
            count = Len(PlainCommands(commands))
                      + n * Len(PlaceholderTemplates(commands))
    ELSE count = Len(commands)

SessionOpIndexes ==
    {i \in 1..Len(ops) : ops[i].op \in {"send", "read_channel", "disconnect"}}

\* the session is lost at operation i: that operation and every session
\* operation after it raised
LostFrom(i) ==
    /\ i \in SessionOpIndexes
    /\ \A j \in SessionOpIndexes : j >= i => ops[j].reply.raised

SessionLost == \E i \in 1..Len(ops) : LostFrom(i)

LastSessionOp ==
    ops[CHOOSE i \in SessionOpIndexes : \A j \in SessionOpIndexes : j <= i]

\* C11: if the session is lost in the middle of a run (every session
\* operation raises from some operation on), no manifest file is written and
\* the run never reaches its normal end: a raising flush, paging send or
\* disconnect aborts the run on the spot, and a raising send of
\* execute_command is recorded as failed and leaves the run on its way to the
\* next flush or to the disconnect.
C11_SessionLossAborts ==
    SessionLost =>
        /\ manifest_file = <<>>
        /\ pc \notin {"write_manifest", "done"}
        /\ (LastSessionOp.op \in {"read_channel", "disconnect"}
              \/ LastSessionOp.by = "disable_paging") => pc = "aborted"
        /\ (LastSessionOp.op = "send" /\ LastSessionOp.by = "execute_command")
              => \/ pc \in {"record", "loop", "category", "gate", "flush",
                            "disconnect"}
                 \/ pc = "aborted" /\ abort = "gate"

\* the session was lost during a send after earlier commands had left
\* artifacts; the send was recorded as failed and the next flush aborted the run
C11_Witness ==
    /\ pc = "aborted" /\ abort = "flush"
    /\ files # EmptyFiles
    /\ \E i \in 1..(Len(ops) - 1) :
          /\ LostFrom(i)
          /\ ops[i].op = "send" /\ ops[i].by = "execute_command"
          /\ Len(manifest.artifacts) >= 2
          /\ manifest.artifacts[Len(manifest.artifacts)].command = ops[i].cmd

\* C12: the manifest file is written at most once per run, and only when the
\* last thing the run did to the session is a disconnect that returned and
\* every executed command has its attempt recorded in the manifest that is
\* written; after the write neither the file, the manifest nor the history
\* changes; if the connect fails no manifest file is written.
C12_ManifestWrittenOnceAtEnd ==
    [][ /\ manifest_file' # manifest_file =>
              /\ manifest_file = <<>>
              /\ manifest_file' = <<manifest>>
              /\ Len(ops) > 0
              /\ ops[Len(ops)].op = "disconnect"
              /\ ~ops[Len(ops)].reply.raised
              /\ ops[1].op = "connect"
              /\ Len(manifest.artifacts) = Cardinality(ExecutedSends)
              /\ engine = "probe" =>
                    Len(manifest.command_attempts) = Cardinality(ExecutedSends)
        /\ manifest_file # <<>> => UNCHANGED <<manifest_file, manifest, ops>>
        /\ abort' = "connect" => (manifest_file' = <<>> /\ ops' = <<>>)
      ]_vars

\* a run of several executions ended with the manifest written after the
\* disconnect
C12_Witness ==
    /\ pc = "done"
    /\ manifest_file = <<manifest>>
    /\ Len(manifest.artifacts) >= 3
    /\ ops[Len(ops)].op = "disconnect"

\* the attempts a manifest records for a category, in execution order:
\* command_attempts in run_probe, the artifact entries (which carry the
\* status) in the collectors
AttemptsOf(m, category) ==
    IF engine = "probe"
    THEN SelectSeq(m.command_attempts, LAMBDA a : a.category = category)
    ELSE SelectSeq(m.artifacts, LAMBDA a : a.category = category)

AllAttempts(m) == IF engine = "probe" THEN m.command_attempts ELSE m.artifacts

\* C13: in the written manifest the attempts are the executed commands, in
\* order, each with a status among success, empty and failed; for every
\* category of the command set the succeeded list is the sequence of the
\* commands of its attempts with status success and the failed list the
\* sequence of those with status empty or failed, both in execution order, so
\* the two lengths sum to the number of attempts of the category.
C13_SummaryPartitionsAttempts ==
    manifest_file # <<>> =>
        LET m == manifest_file[1] IN
        /\ CommandsOf(AllAttempts(m)) = CommandsOf(ExecutedSendOps)
        /\ \A k \in 1..Len(AllAttempts(m)) :
              AllAttempts(m)[k].status \in {"success", "empty", "failed"}
        /\ DOMAIN m.results = {command_set[k].category : k \in 1..Len(command_set)}
        /\ \A c \in DOMAIN m.results :
              LET attempts == AttemptsOf(m, c)
                  ok  == SelectSeq(attempts, LAMBDA a : a.status = "success")
                  bad == SelectSeq(attempts,
                                   LAMBDA a : a.status \in {"empty", "failed"})
              IN  /\ DOMAIN m.results[c] = {OkKey, BadKey}
                  /\ m.results[c][OkKey] = CommandsOf(ok)
                  /\ m.results[c][BadKey] = CommandsOf(bad)
                  /\ Len(m.results[c][OkKey]) + Len(m.results[c][BadKey])
                        = Len(attempts)

\* a written manifest with a category of three attempts: a success, an empty
\* one and a failed one
C13_Witness ==
    /\ manifest_file # <<>>
    /\ \E c \in DOMAIN manifest_file[1].results :
          LET attempts == AttemptsOf(manifest_file[1], c) IN
          /\ Len(attempts) = 3
          /\ {attempts[k].status : k \in 1..3} = {"success", "empty", "failed"}
          /\ Len(manifest_file[1].results[c][BadKey]) = 2

\* C14: when the manifest is written, for every artifact entry in it the
\* file at the entry's path exists, the recorded checksum is the hash of the
\* bytes the file holds at that time, and those bytes are what the session
\* answered to the execution the entry was made for.
C14_ChecksumMatchesFile ==
    manifest_file # <<>> =>
        LET entries == manifest_file[1].artifacts IN
        /\ Len(entries) = Len(ExecutedSendOps)
        /\ \A k \in 1..Len(entries) :
              /\ entries[k].path \in DOMAIN files
              /\ entries[k].checksum = sha256_bytes(files[entries[k].path])
              /\ files[entries[k].path] = ExecutedSendOps[k].reply.text

\* the artifact entries of the written manifest that reference a file name
ReferencesTo(p) ==
    IF manifest_file = <<>> THEN {}
    ELSE {k \in 1..Len(manifest_file[1].artifacts) :
             manifest_file[1].artifacts[k].path = p}

\* C15: after the run has ended, normally or by abort, every file in the
\* artifact directory is referenced by exactly one artifact entry of a written
\* manifest.
C15_EveryFileInOneManifest ==
    pc \in {"done", "aborted"} =>
        \A p \in DOMAIN files : Cardinality(ReferencesTo(p)) = 1

\* C16: in a written collector manifest a feature whose backing artifact is
\* absent from the artifact directory is reported not_supported, and a
\* feature is reported supported only if it has a backing artifact and that
\* artifact exists.
C16_AbsentMeansNotSupported ==
    (manifest_file # <<>> /\ engine \in Collectors) =>
        LET capabilities == manifest_file[1].capabilities IN
        \A f \in DOMAIN capabilities :
            /\ (f \in DOMAIN Backing /\ Backing[f] \notin DOMAIN files)
                  => capabilities[f] = "not_supported"
            /\ capabilities[f] = "supported"
                  => (f \in DOMAIN Backing /\ Backing[f] \in DOMAIN files)

\* what each parser returns when it recognizes nothing
DefaultResult(f) ==
    IF f = "inventory"
    THEN IF engine = "aruba_ap"
         THEN [os_version |-> None, model |-> None, uptime |-> None]
         ELSE [os_version |-> None, model |-> None, uptime |-> None,
               serial |-> None]
    ELSE <<>>

\* C17: in a written collector manifest a feature whose backing artifact
\* exists but is empty, whitespace-only or without any recognizable
\* structure is reported supported and its structured field is the parser's
\* empty/default result; the collector ends without an exception.
C17_UnstructuredIsSupportedAndEmpty ==
    /\ engine \in Collectors => pc # "aborted"
    /\ (manifest_file # <<>> /\ engine \in Collectors) =>
          \A f \in DOMAIN Backing :
              (Backing[f] \in DOMAIN files
                  /\ files[Backing[f]] \in UnstructuredTexts)
              => /\ manifest_file[1].capabilities[f] = "supported"
                 /\ manifest_file[1][f] = DefaultResult(f)

\* the lines of the client table, its data rows (the lines anchored by a
\* dotted-quad address) and the labels a header line holds
TableLines == SplitLines(ArtifactGet(files, MacTable1Txt, <<>>))
DataRows == SelectSeq(TableLines, DottedQuad)
Recognized(header) ==
    {i \in DOMAIN ColumnLabels : Contains(header, ColumnLabels[i].label)}

\* the character offset of a recognized label in the header
OffsetOf(header, i) ==
    MinOf({n \in 0..Len(header) :
              StartsWithAt(header, n + 1, ColumnLabels[i].label)})

\* the offset at which the column of label i ends in a line: the next larger
\* offset of a recognized label, the end of the line if there is none
ColumnEnd(line, header, i) ==
    LET larger == {OffsetOf(header, j) : j \in Recognized(header)}
                      \cap ((OffsetOf(header, i) + 1)..Len(header))
    IN  IF larger = {} THEN Len(line) ELSE MinOf(larger)

\* the characters of a line at the offsets lo .. hi - 1
Between(line, lo, hi) ==
    [n \in 1..((IF hi < Len(line) THEN hi ELSE Len(line)) - lo) |-> line[lo + n]]

\* the value the claim gives the field of label i in a row
ExpectedField(line, header, i) ==
    LET text == Between(line, OffsetOf(header, i), ColumnEnd(line, header, i))
    IN  IF Blank(text) THEN None ELSE Some(Strip(text))

\* a line with the characters at the offsets lo .. hi - 1 replaced by blanks
BlankedBetween(line, lo, hi) ==
    [n \in 1..Len(line) |-> IF n > lo /\ n <= hi THEN " " ELSE line[n]]

FieldOf(client, i) ==
    IF ColumnLabels[i].key = "age" THEN client.auth_age
    ELSE client[ColumnLabels[i].key]

\* C18: parse_clients returns one record per data row, in order; in each,
\* the field of every label recognized in the header line is the trimmed text
\* of the row between the label's offset and the next larger label offset
\* (the last one to the end of the line), null when that text is blank, and
\* the field of a label the header lacks is null; blanking an optional field
\* of a row makes that field null and leaves every other field as it was.
C18_HeaderAnchoredSlicing ==
    (manifest_file # <<>> /\ engine = "aruba_controller"
        /\ HeaderOf(TableLines) # None) =>
        LET header == HeaderOf(TableLines)[1]
            clients == manifest_file[1].clients
        IN  /\ Len(clients) = Len(DataRows)
            /\ \A r \in 1..Len(DataRows) : \A i \in DOMAIN ColumnLabels :
                  /\ i \in Recognized(header) =>
                        FieldOf(clients[r], i)
                            = ExpectedField(DataRows[r], header, i)
                  /\ i \notin Recognized(header) =>
                        FieldOf(clients[r], i) = None
                  /\ (i \in Recognized(header) /\ ColumnLabels[i].key # "ip") =>
                        LET blanked ==
                                BlankedBetween(DataRows[r], OffsetOf(header, i),
                                               ColumnEnd(DataRows[r], header, i))
                            again == ClientOf(blanked, col_positions(header))
                        IN  \A j \in DOMAIN ColumnLabels :
                                FieldOf(again, j) =
                                    IF j = i THEN None
                                    ELSE FieldOf(clients[r], j)

\* a table of two rows was parsed: the first with a blank name between a
\* filled address and a filled role, and an AP name that holds a blank; the
\* second with the name filled and the role blank
C18_Witness ==
    /\ manifest_file # <<>> /\ engine = "aruba_controller"
    /\ Len(manifest_file[1].clients) = 2
    /\ manifest_file[1].clients[1].ip = Some(IpShort)
    /\ manifest_file[1].clients[1].name = None
    /\ manifest_file[1].clients[1].role = Some(<<"a","u","t","h">>)
    /\ manifest_file[1].clients[1].ap = Some(<<"A","P"," ","1","2">>)
    /\ manifest_file[1].clients[1].essid = None
    /\ manifest_file[1].clients[2].ip = Some(IpLong)
    /\ manifest_file[1].clients[2].name = Some(<<"b","o","b">>)
    /\ manifest_file[1].clients[2].role = None

\* the key the claim files a client record under
ExpectedKey(client) ==
    IF "ap" \in DOMAIN client /\ client.ap # None /\ client.ap[1] # <<>>
    THEN client.ap[1]
    ELSE UnknownLit

RECURSIVE SumOfSizes(_, _)
SumOfSizes(aps, keys) ==
    IF keys = {} THEN 0
    ELSE LET k == CHOOSE k \in keys : TRUE
         IN  Len(aps[k]) + SumOfSizes(aps, keys \ {k})

\* C19: in the written correlation every client record of the controller
\* manifest is filed under exactly one key of aps, its 'ap' value when
\* present and non-empty and UNKNOWN otherwise: the keys are the keys of the
\* records, each group is the records of that key in their order, the group
\* sizes sum to summary.clients_seen, which is the number of records,
\* summary.aps_seen is the number of keys, and the AP-naming-incompatibility
\* note is in notes.
C19_EveryClientInOneGroup ==
    out_file # <<>> =>
        LET out == out_file[1]
            clients == ClientsOf(ctrl_manifest[1])[1]
        IN  /\ DOMAIN out.aps = {ExpectedKey(clients[k]) : k \in 1..Len(clients)}
            /\ \A name \in DOMAIN out.aps :
                  out.aps[name]
                      = SelectSeq(clients, LAMBDA c : ExpectedKey(c) = name)
            /\ SumOfSizes(out.aps, DOMAIN out.aps) = out.summary.clients_seen
            /\ out.summary.clients_seen = Len(clients)
            /\ out.summary.aps_seen = Cardinality(DOMAIN out.aps)
            /\ \E n \in 1..Len(out.notes) : out.notes[n] = IncompatibilityNote

\* two clients were grouped: one under the AP name it reports, one without
\* an 'ap' field under UNKNOWN
C19_Witness ==
    /\ out_file # <<>>
    /\ LET clients == ClientsOf(ctrl_manifest[1])[1] IN
       /\ Len(clients) = 2
       /\ "ap" \in DOMAIN clients[1] /\ clients[1].ap = Some(<<"A","P","-","1","2">>)
       /\ "ap" \notin DOMAIN clients[2]
       /\ out_file[1].aps = (<<"A","P","-","1","2">> :> <<clients[1]>>)
                               @@ (UnknownLit :> <<clients[2]>>)
       /\ out_file[1].summary.aps_seen = 2

\* C20: given the two manifest files, whatever their fields hold (each of
\* them, 'clients' included, a value, null or missing), the derivation ends
\* without an exception and with its output written.
C20_AlwaysProducesOutput ==
    (engine = "derive" /\ ap_manifest # <<>> /\ ctrl_manifest # <<>>) =>
        /\ pc # "aborted"
        /\ pc = "derived" => out_file # <<>>

\* the lines of a text, without their line ends, and whether each is ended
\* by a newline
RECURSIVE LinesOf(_)
LinesOf(text) ==
    LET breaks == {i \in 1..Len(text) : text[i] = "\n"} IN
    IF text = <<>> THEN <<>>
    ELSE IF breaks = {} THEN <<[line |-> text, ended |-> FALSE]>>
    ELSE LET b == MinOf(breaks) IN
         <<[line |-> SubSeq(text, 1, b - 1), ended |-> TRUE]>>
             \o LinesOf(SubSeq(text, b + 1, Len(text)))

\* the digits a line starts with after its leading whitespace
NumericPrefix(line) ==
    LET q == SpaceEnd(line, 1) IN SubSeq(line, q, DigitEnd(line, q) - 1)

\* the line has the form: optional leading whitespace, one or more digits,
\* then whitespace (the newline that ends the line counts as whitespace)
HasIdForm(l) ==
    LET q == SpaceEnd(l.line, 1)
        r == DigitEnd(l.line, q)
    IN  /\ r > q
        /\ \/ r <= Len(l.line) /\ IsSpace(l.line[r])
           \/ r > Len(l.line) /\ l.ended

\* the numeric prefixes of the lines that have the form, in order
RECURSIVE PrefixesOf(_)
PrefixesOf(lines) ==
    IF lines = <<>> THEN <<>>
    ELSE (IF HasIdForm(lines[1]) THEN <<ToInt(NumericPrefix(lines[1].line))>>
          ELSE <<>>) \o PrefixesOf(Tail(lines))

\* C21: extract_vlan_ids returns, in the order encountered, the numeric prefix
\* of every output line made of optional leading whitespace, digits and then
\* whitespace, and nothing for any other line, whatever the other lines hold.
C21_IdsAreLinePrefixes ==
    (engine = "extract" /\ pc = "extracted") =>
        vlan_ids = PrefixesOf(LinesOf(result.output))

\* default handling of the current category has just finished
DefaultFinished == pc = "loop" /\ phase = "default" /\ ei > Len(CurCommands)

\* C22: when default handling of a category with k templates finishes, it has
\* performed exactly k executions, one per template in declared order (gate
\* check, flush and send of the template's text), and the i-th execution is
\* persisted in the artifact named <category>_<i>.txt, which holds what the
\* session answered to it.
C22_DefaultIsOnePerTemplate ==
    DefaultFinished =>
        LET k == Len(CurCommands)
            base == Len(ops) - 3 * k
        IN  /\ base >= 0
            /\ cmd_index = k + 1
            /\ Len(ArtifactsOf(CurCategory)) = k
            /\ \A i \in 1..k :
                  /\ ops[base + 3 * i - 2].op = "gate"
                  /\ ops[base + 3 * i - 2].cmd = CurCommands[i]
                  /\ ops[base + 3 * i - 1].op = "read_channel"
                  /\ ops[base + 3 * i].op = "send"
                  /\ ops[base + 3 * i].cmd = CurCommands[i]
                  /\ LastArtifacts(k)[i].command = CurCommands[i]
                  /\ LastArtifacts(k)[i].category = CurCategory
                  /\ LastArtifacts(k)[i].path = IndexedName(CurCategory, i)
                  /\ IndexedName(CurCategory, i) \in DOMAIN files
                  /\ files[IndexedName(CurCategory, i)]
                        = ops[base + 3 * i].reply.text

\* default handling finished for a category of three templates whose
\* executions ended differently
C22_Witness ==
    /\ DefaultFinished
    /\ Len(CurCommands) >= 3
    /\ files[IndexedName(CurCategory, 1)] # files[IndexedName(CurCategory, 3)]
    /\ LastArtifacts(3)[3].path = IndexedName(CurCategory, 3)

\* the run is in the vlans category of an engine that has VLAN handling
InVlanHandling ==
    /\ engine \in {"probe", "os"}
    /\ ci <= Len(command_set)
    /\ CurCategory = VlansCat

\* the gate checks and the sends of execute_command made for the current
\* category so far: those after the ones of the finished categories
GatesOfCategory ==
    SubSeq(GateChecks,
           Len(manifest.artifacts) - Len(ArtifactsOf(CurCategory)) + 1,
           Len(GateChecks))
SendsOfCategory ==
    SubSeq(ExecutedSendOps,
           Len(manifest.artifacts) - Len(ArtifactsOf(CurCategory)) + 1,
           Len(ExecutedSendOps))

\* the text is a placeholder template of the current category with a
\* discovered id in place of the placeholder
PlaceholderDerived(text) ==
    \E e \in 1..Len(CurCommands), v \in 1..Len(vlan_ids) :
        /\ HasPlaceholder(CurCommands[e])
        /\ text = Substituted(CurCommands[e], vlan_ids[v])

\* the entries are the templates without placeholder, in declared order, and
\* after all of them only placeholder-derived commands, none of them before
\* phase 2
PlainThenDerived(entries) ==
    LET plain == PlainCommands(CurCommands) IN
    \A j \in 1..Len(entries) :
        IF j <= Len(plain)
        THEN entries[j].cmd = plain[j]
        ELSE /\ phase = "phase2"
             /\ PlaceholderDerived(entries[j].cmd)
             /\ \A k \in 1..Len(plain) : entries[j].cmd # plain[k]

\* C23: in the vlans category (run_probe and the ArubaOS-Switch collector)
\* every template without placeholder is executed, in declared order,
\* before any placeholder-derived command of the category is gated or sent,
\* and no phase-1 command is gated or sent once phase 2 has started.
C23_Phase1BeforePhase2 ==
    InVlanHandling =>
        /\ PlainThenDerived(GatesOfCategory)
        /\ PlainThenDerived(SendsOfCategory)
        /\ phase = "phase2" =>
              /\ Len(SendsOfCategory) >= Len(PlainCommands(CurCommands))
              /\ Len(ArtifactsOf(CurCategory)) >= Len(PlainCommands(CurCommands))

\* three templates without placeholder were executed and then the second
\* derived command was sent
C23_Witness ==
    /\ InVlanHandling
    /\ phase = "phase2" /\ pc = "record"
    /\ Len(PlainCommands(CurCommands)) = 3
    /\ Len(SendsOfCategory) = 5
    /\ PlaceholderDerived(cmd)

\* every send of execute_command made so far has its artifact entry and file
\* and, in run_probe, its attempt
EverySendRecorded ==
    /\ Len(manifest.artifacts) = Len(ExecutedSendOps)
    /\ engine = "probe" => Len(manifest.command_attempts) = Len(ExecutedSendOps)
    /\ \A k \in 1..Len(manifest.artifacts) :
          /\ manifest.artifacts[k].command = ExecutedSendOps[k].cmd
          /\ manifest.artifacts[k].path \in DOMAIN files

\* C24: every command of a category goes through flush, send, classify: when
\* execute_command sends a command, the operation just before is the flush
\* of that execution, which returned, and the one before that the gate check
\* of the command, so the flush comes after the previous command's output was
\* returned and no other send lies in between; the step classifies the
\* answer; and whenever a command is gated or sent, every earlier execution
\* already has its artifact written and its attempt recorded.
C24_FlushSendClassify ==
    [][ops' # ops =>
          LET n == Len(ops)
              new == ops'[Len(ops')]
          IN  /\ new.op = "gate" => EverySendRecorded
              /\ new.op = "read_channel" =>
                    /\ n >= 1
                    /\ ops[n].op = "gate" /\ ops[n].cmd = cmd
              /\ (new.op = "send" /\ new.by = "execute_command") =>
                    /\ n >= 2
                    /\ ops[n].op = "read_channel" /\ ~ops[n].reply.raised
                    /\ ops[n - 1].op = "gate" /\ ops[n - 1].cmd = new.cmd
                    /\ EverySendRecorded
                    /\ result'.status \in {"success", "empty", "failed"}
                    /\ result'.output = new.reply.text
                    /\ pc' = "record"
       ]_vars

\* a second command was flushed and sent after the first one's artifact was
\* written
C24_Witness ==
    /\ pc = "record"
    /\ Len(ExecutedSendOps) = 2
    /\ Len(manifest.artifacts) = 1
    /\ manifest.artifacts[1].path \in DOMAIN files
    /\ ops[Len(ops) - 1].op = "read_channel"

\* attempts and category-command sends correspond one to one, in order: the
\* only send without its attempt is the one being recorded
AttemptsMatchSends ==
    LET recorded == AllAttempts(manifest) IN
    /\ Len(ExecutedSendOps) = Len(recorded) + (IF pc = "record" THEN 1 ELSE 0)
    /\ Len(manifest.artifacts) = Len(recorded)
    /\ \A k \in 1..Len(recorded) :
          /\ recorded[k].command = ExecutedSendOps[k].cmd
          /\ recorded[k].status = Classify(ExecutedSendOps[k].reply).status

\* a command that ended failed or empty is not sent a second time
NeverSentAgain ==
    \A i, j \in 1..Len(ExecutedSendOps) :
        (i < j /\ ExecutedSendOps[i].cmd = ExecutedSendOps[j].cmd)
            => Classify(ExecutedSendOps[i].reply).status = "success"

\* the attempts already recorded stay as they are
AttemptsKept ==
    \A k \in 1..Len(AllAttempts(manifest)) :
        /\ k <= Len(AllAttempts(manifest'))
        /\ AllAttempts(manifest')[k] = AllAttempts(manifest)[k]

LoopAdvances ==
    (ci' = ci /\ phase' = phase /\ pc # "category") =>
        \/ ei' > ei
        \/ ei' = ei /\ vi' >= vi

\* the command being selected is the one at the position of the loops
SelectsCurrentPosition ==
    (pc = "loop" /\ pc' = "gate") =>
        IF phase = "phase2"
        THEN cmd' = render_command(CurCommands[ei], vlan_ids[vi])
        ELSE cmd' = CurCommands[ei]

\* recording an execution moves the loop to its next position whatever the
\* outcome was
RecordMovesOn ==
    manifest'.artifacts # manifest.artifacts =>
        /\ cmd_index' = cmd_index + 1
        /\ IF phase = "phase2" THEN ei' = ei /\ vi' = vi + 1 ELSE ei' = ei + 1

HasExpression(text) ==
    \E i \in 1..Len(text) : ExprLenAtHead(SubSeq(text, i, Len(text))) > 0

\* C26: every command text sent to the session by execute_command and
\* recorded is post-expansion: no template is sent with its placeholder
\* unsubstituted, in any category; and only categories without placeholder
\* templates are handled by default handling.
C26_NoTemplateSentRaw ==
    /\ \A k \in 1..Len(ExecutedSendOps) : ~HasExpression(ExecutedSendOps[k].cmd)
    /\ \A k \in 1..Len(manifest.artifacts) :
          ~HasExpression(manifest.artifacts[k].command)
    /\ (phase = "default" /\ pc \in {"gate", "flush", "send", "record"}) =>
          \A e \in 1..Len(CurCommands) : ~HasExpression(CurCommands[e])

\* the position of a category in the declaration order of the command set
CategoryIndex(category) ==
    CHOOSE k \in 1..Len(command_set) : command_set[k].category = category

\* the recorded executions are grouped by category, the categories in
\* declaration order and none beyond the one being processed
OrderedByCategory ==
    /\ \A j, k \in 1..Len(manifest.artifacts) :
          j < k => CategoryIndex(manifest.artifacts[j].category)
                      <= CategoryIndex(manifest.artifacts[k].category)
    /\ \A k \in 1..Len(manifest.artifacts) :
          CategoryIndex(manifest.artifacts[k].category) <= ci

\* every execution of the current category has been made: one per template
\* under default handling; under VLAN handling one per template without
\* placeholder and one per placeholder template and discovered id
CategoryFinished ==
    Len(ArtifactsOf(CurCategory)) =
        IF engine # "cx" /\ CurCategory = VlansCat
        THEN Len(PlainCommands(CurCommands))
               + Len(PlaceholderTemplates(CurCommands)) * Len(vlan_ids)
        ELSE Len(CurCommands)

\* what is recorded so far is, in order, what was sent so far
RecordedInExecutionOrder ==
    /\ Len(AllAttempts(manifest)) <= Len(ExecutedSendOps)
    /\ \A k \in 1..Len(AllAttempts(manifest)) :
          AllAttempts(manifest)[k].command = ExecutedSendOps[k].cmd
    /\ CommandsOf(manifest.artifacts) = CommandsOf(AllAttempts(manifest))

\* C27: categories are processed in the declaration order of the command
\* set: the run moves from a category only to the next declared one and only
\* when all executions of the category (both phases for the vlans category)
\* are finished; a command is gated only while every recorded execution
\* belongs to the category being processed or to an earlier one; and the
\* attempts of the manifest are in execution order.
C27_CategoriesInDeclaredOrder ==
    [][ /\ ci' # ci => (ci' = ci + 1 /\ CategoryFinished)
        /\ (ops' # ops /\ ops'[Len(ops')].op = "gate") =>
              /\ OrderedByCategory
              /\ \E e \in 1..Len(CurCommands) :
                    \/ cmd = CurCommands[e]
                    \/ \E v \in 1..Len(vlan_ids) :
                          cmd = render_command(CurCommands[e], vlan_ids[v])
        /\ OrderedByCategory'
        /\ RecordedInExecutionOrder'
      ]_vars

\* the second category is being executed after the three executions of the
\* first one
C27_Witness ==
    /\ ci = 2 /\ pc = "record"
    /\ Len(ArtifactsOf(command_set[1].category)) = 3
    /\ Len(ExecutedSendOps) = 4
    /\ ExecutedSendOps[4].cmd = command_set[2].commands[1]

\* the line is a device identifier (six pairs of hexadecimal digits separated
\* by colons) followed by the prompt delimiter and nothing else, blanks
\* around it aside
ExactPromptLine(line) ==
    LET s == Strip(line) IN
    /\ Len(s) = 18
    /\ \A k \in 1..18 :
          IF k = 18 THEN s[k] = "#"
          ELSE IF k % 3 = 0 THEN s[k] = ":"
          ELSE s[k] \in HexSet

\* the text without its exact prompt lines, the other lines unchanged and in
\* order
WithoutPromptLines(text) ==
    Join(SelectSeq(SplitLines(text), LAMBDA line : ~ExactPromptLine(line)))

\* the AP collector has built its manifest from the artifact of that name
ApParsed(name) ==
    /\ engine = "aruba_ap"
    /\ pc \in {"write_collector_manifest", "collected"}
    /\ name \in DOMAIN artifacts
    /\ artifacts[name] # <<>>

\* C28: _strip_prompt_lines removes from its input exactly the lines that
\* are a device identifier followed by the prompt delimiter and nothing else,
\* keeps every other line unchanged and in order, and the AP collector parses
\* each artifact (inventory and power) only after stripping its text.
C28_ExactPromptLinesStrippedFirst ==
    /\ \A name \in {Inventory1Txt, Poe1Txt} :
          ApParsed(name) =>
              _strip_prompt_lines(artifacts[name])
                  = WithoutPromptLines(artifacts[name])
    /\ ApParsed(Inventory1Txt) =>
          manifest.inventory
              = _parse_inventory(_strip_prompt_lines(artifacts[Inventory1Txt]))
    /\ ApParsed(Poe1Txt) =>
          manifest.power
              = PowerOfLines(SplitLines(_strip_prompt_lines(artifacts[Poe1Txt])))

-----------------------------------------------------------------------------
(* C29 *)

\* what an artifact entry says in both programs
Described(entry) ==
    [path |-> entry.path, command |-> entry.command,
     category |-> entry.category, checksum |-> entry.checksum]

SameArtifacts(a, b) ==
    /\ Len(a) = Len(b)
    /\ \A k \in 1..Len(a) : Described(a[k]) = Described(b[k])

\* the per-category summaries agree once the keys are renamed
SamePartition(probe_results, os_results) ==
    /\ DOMAIN probe_results = DOMAIN os_results
    /\ \A c \in DOMAIN probe_results :
        /\ DOMAIN probe_results[c] = {"supported", "unsupported"}
        /\ DOMAIN os_results[c] = {"success", "failed"}
        /\ probe_results[c]["supported"] = os_results[c]["success"]
        /\ probe_results[c]["unsupported"] = os_results[c]["failed"]

CollectorEnded == probe_run # <<>> /\ pc \in {"done", "aborted"}

-----------------------------------------------------------------------------
(* C30 *)

\* the attempt and the artifact entry at position n describe one execution
SameExecution(attempt, entry) ==
    /\ attempt.command = entry.command
    /\ attempt.category = entry.category
    /\ attempt.artifact_path = entry.path

\* attempt_index counts the executions of a category from 1, without gaps
CountedFromOne(attempts) ==
    \A n \in 1..Len(attempts) :
        attempts[n].attempt_index =
            IF n > 1 /\ attempts[n - 1].category = attempts[n].category
            THEN attempts[n - 1].attempt_index + 1
            ELSE 1

\* C30: in run_probe, at every point of the run, command_attempts and
\* artifacts have the same length and the entries at the same position name
\* the same command, category and artifact path; the attempts of one category
\* carry the attempt_index values 1, 2, ..., k in execution order, phase 1 and
\* phase 2 counted together, and the first attempt of the next category
\* carries 1 again
C30_AttemptsAlignedAndCounted ==
    engine = "probe" =>
        LET attempts == manifest.command_attempts
            entries  == manifest.artifacts
        IN  /\ Len(attempts) = Len(entries)
            /\ \A n \in 1..Len(attempts) : SameExecution(attempts[n], entries[n])
            /\ CountedFromOne(attempts)
            /\ \A c \in DOMAIN manifest.results :
                 LET of_c == AttemptsOf(manifest, c)
                 IN  \A k \in 1..Len(of_c) : of_c[k].attempt_index = k

\* run_probe has counted a VLAN category through both phases and started
\* the count of a later category
C30_Witness ==
    /\ engine = "probe"
    /\ probe_run = <<>>
    /\ \E n \in 2..Len(manifest.command_attempts) :
        LET a == manifest.command_attempts
        IN  /\ a[n].category # a[n - 1].category
            /\ a[n].attempt_index = 1
            /\ a[n - 1].category = VlansCat
            /\ a[n - 1].attempt_index >= 3
            /\ \E id \in 1..10 :
                 a[n - 1].artifact_path \in
                     {VlanPrefix \o ToStr(id) \o DotTxt,
                      VlanPrefix \o ToStr(id) \o DetailSuffix \o DotTxt}

-----------------------------------------------------------------------------
(* C31 *)

\* the calls of conn.disconnect() made so far, returned or raised
DisconnectCalls == {k \in 1..Len(ops) : ops[k].op = "disconnect"}

\* connect has returned a session and no disconnect has returned since
SessionOpen ==
    /\ \E k \in 1..Len(ops) : ops[k].op = "connect"
    /\ \A k \in DisconnectCalls : ops[k].reply.raised

\* the category loop has been left through its end
AllCategoriesFinished ==
    \/ pc \in {"write_manifest", "done"}
    \/ pc = "aborted" /\ abort = "disconnect"

AbortedAfterConnect == pc = "aborted" /\ abort # "connect"

\* every file an artifact entry names is on disk
RecordedFilesOnDisk ==
    \A k \in 1..Len(manifest.artifacts) :
        manifest.artifacts[k].path \in DOMAIN files

\* C31: once a run has been through all its categories, disconnect has been
\* called on the session exactly once, and it is not called before; a run
\* that ends through a Safety Gate rejection or through an exception leaving
\* the flush never calls it; on every way out through an exception after
\* connect returned, no disconnect has returned (the session is left open),
\* the step that aborts leaves the artifact files as they were, with the
\* manifest file unwritten, and nothing runs after it
C31_DisconnectOnlyAtTheEnd ==
    [][ /\ AllCategoriesFinished' => Cardinality(DisconnectCalls') = 1
        /\ ~AllCategoriesFinished' => DisconnectCalls' = {}
        /\ (pc' = "aborted" /\ abort' \in {"gate", "flush"}) =>
               DisconnectCalls' = {}
        /\ AbortedAfterConnect' =>
               /\ SessionOpen'
               /\ files' = files
               /\ RecordedFilesOnDisk'
               /\ manifest_file' = <<>>
        /\ pc # "aborted"
      ]_vars

\* a run rejected by the Safety Gate after artifacts were written
C31_Witness ==
    /\ pc = "aborted"
    /\ abort = "gate"
    /\ SessionOpen
    /\ DisconnectCalls = {}
    /\ files # EmptyFiles
    /\ manifest.artifacts # <<>>

====
